---- MODULE Spec2Model ----
(***************************************************************************)
(* Client-side query orchestration of the KEMET Data Explorer:            *)
(* DatabaseManager.query, ConcordanceView, LemmaDetail, Dictionary,       *)
(* QueryBuilder and SQLEditor, with the SQL text they build and the way   *)
(* the embedded engine reads it back.                                     *)
(*                                                                         *)
(* A JavaScript string is a sequence of one-element strings (its          *)
(* characters); a fixed piece of SQL text or a fixed identifier is one     *)
(* element of such a sequence.  null is the sequence Null.                 *)
(***************************************************************************)
EXTENDS Integers, Sequences, FiniteSets, TLC

VARIABLES
    db,         \* contents of the attached database files (read-only)
    isReady,    \* DatabaseManager.isReady
    inflight,   \* queries handed to conn.query and not yet settled
    cv,         \* one ConcordanceView and its loadConcordance call
    ld,         \* one LemmaDetail and its loadLemma call
    dict,       \* the Dictionary and its handleSearch calls
    qb,         \* the QueryBuilder
    ed,         \* the SQLEditor
    esc,        \* input and output of one escapeSQL application
    exp,        \* the data handed to an export and the file it downloads
    mgr,        \* DatabaseManager.initialize: the browser cache and the downloads
    app         \* App: the router, its views and the pending imports

vars == <<db, isReady, inflight, cv, ld, dict, qb, ed, esc, exp, mgr, app>>

(***************************************************************************)
(* Bounds                                                                  *)
(***************************************************************************)
MaxTokens == 2      \* rows of corpus.token_instances
MaxLimit == 2       \* largest LIMIT a concordance request asks for
MaxStrLen == 4      \* longest string given to escapeSQL on its own
MaxGestures == 3    \* user gestures (keystrokes, clicks, navigations) in one session

(***************************************************************************)
(* Strings                                                                 *)
(***************************************************************************)
Quote == "'"
Null == <<"null">>
Chars == {"a", "b", Quote}
Space == " "

Strs(n) == UNION {[1..k -> Chars] : k \in 0..n}

\* JavaScript truthiness of a string or null:  !str
JsTrue == <<"true">>
JsFalse == <<"false">>
IsFalsy(v) == v = Null \/ v = <<>> \/ v = JsFalse

\* String(str)
JsString(v) == IF v = Null THEN <<"n", "u", "l", "l">> ELSE v

\* str.replace(/'/g, "''")
RECURSIVE ReplaceQuotes(_)
ReplaceQuotes(s) ==
    IF s = <<>> THEN <<>>
    ELSE (IF Head(s) = Quote THEN <<Quote, Quote>> ELSE <<Head(s)>>)
         \o ReplaceQuotes(Tail(s))

\* str.replace("'", "''"), which replaces the first quote only
ReplaceFirstQuote(s) ==
    IF \E i \in 1..Len(s) : s[i] = Quote
    THEN LET i == CHOOSE i \in 1..Len(s) : s[i] = Quote /\ \A j \in 1..(i - 1) : s[j] # Quote
         IN  SubSeq(s, 1, i) \o <<Quote>> \o SubSeq(s, i + 1, Len(s))
    ELSE s

\* escapeSQL without the g flag of the regular expression
escapeSQL_FirstQuoteOnly(str) == IF IsFalsy(str) THEN <<>> ELSE ReplaceFirstQuote(JsString(str))

\* escapeSQL of the concordance view
escapeSQL(str) == IF IsFalsy(str) THEN <<>> ELSE ReplaceQuotes(JsString(str))

\* escapeSQL of the lemma detail (a second copy of the same helper)
escapeSQLLemma(str) == IF IsFalsy(str) THEN <<>> ELSE ReplaceQuotes(JsString(str))

\* `'${...}'`
Quoted(s) == <<Quote>> \o s \o <<Quote>>

\* array.join(',')
RECURSIVE Join(_)
Join(parts) ==
    IF parts = <<>> THEN <<>>
    ELSE IF Len(parts) = 1 THEN parts[1]
    ELSE parts[1] \o <<",">> \o Join(Tail(parts))

\* `${n}` for a non-negative integer
Digits == <<"0", "1", "2", "3", "4", "5", "6", "7", "8", "9">>
RECURSIVE DecimalText(_)
DecimalText(n) ==
    IF n < 10 THEN <<Digits[n + 1]>>
    ELSE DecimalText(n \div 10) \o <<Digits[(n % 10) + 1]>>

\* text.trim()
RECURSIVE TrimStart(_)
TrimStart(s) == IF s # <<>> /\ Head(s) = Space THEN TrimStart(Tail(s)) ELSE s
RECURSIVE TrimEnd(_)
TrimEnd(s) ==
    IF s # <<>> /\ s[Len(s)] = Space THEN TrimEnd(SubSeq(s, 1, Len(s) - 1)) ELSE s
Trim(s) == TrimEnd(TrimStart(s))

\* text.toLowerCase() over the letters of the model
LowerOf(c) == IF c = "A" THEN "a" ELSE IF c = "B" THEN "b" ELSE c
ToLower(s) == [i \in 1..Len(s) |-> LowerOf(s[i])]

normalizeForSearch(text) == ToLower(Trim(text))

\* array.map(f)
Map(s, F(_)) == [i \in 1..Len(s) |-> F(s[i])]

(***************************************************************************)
(* The SQL text of the concordance view                                    *)
(***************************************************************************)
KwTokens == "SELECT token_id, segment_id, document_id, form, lemma_id, lang, order FROM corpus.token_instances WHERE lemma_id ="
KwLimit == "LIMIT"
KwContext == "SELECT s.segment_id, s.text, s.sequence, d.document_id, d.title, d.dialect, d.collection_id FROM corpus.segments s JOIN corpus.documents d ON s.document_id = d.document_id WHERE s.segment_id IN ("
KwClose == ")"
KwAndDialect == "AND d.dialect ="
KwCollections == "SELECT collection_id, name FROM corpus.collections WHERE collection_id IN ("
KwAndCollection == "AND collection_id ="

tokensSql(lemmaId, limit) ==
    <<KwTokens>> \o Quoted(escapeSQL(lemmaId)) \o <<KwLimit>> \o DecimalText(limit)

segmentIds(tokens) ==
    Join(Map(tokens, LAMBDA t : Quoted(escapeSQL(t.segment_id))))

\* contextSql without the dialect condition
contextSql_NoDialect(tokens, filters) == <<KwContext>> \o segmentIds(tokens) \o <<KwClose>>

contextSql(tokens, filters) ==
    <<KwContext>> \o segmentIds(tokens) \o <<KwClose>>
    \o (IF ~IsFalsy(filters.dialect)
        THEN <<KwAndDialect>> \o Quoted(escapeSQL(filters.dialect))
        ELSE <<>>)

\* [...new Set(contexts.map(c => c.collection_id).filter(Boolean))]
RECURSIVE Distinct(_, _)
Distinct(s, seen) ==
    IF s = <<>> THEN <<>>
    ELSE IF IsFalsy(Head(s)) \/ Head(s) \in seen THEN Distinct(Tail(s), seen)
    ELSE <<Head(s)>> \o Distinct(Tail(s), seen \cup {Head(s)})

collectionIds(contexts) == Distinct(Map(contexts, LAMBDA c : c.collection_id), {})

collectionSql(ids, filters) ==
    <<KwCollections>> \o Join(Map(ids, LAMBDA id : Quoted(escapeSQL(id)))) \o <<KwClose>>
    \o (IF ~IsFalsy(filters.collection)
        THEN <<KwAndCollection>> \o Quoted(escapeSQL(filters.collection))
        ELSE <<>>)

(***************************************************************************)
(* The SQL text of the lemma detail                                        *)
(***************************************************************************)
KwLemma == "SELECT lemma_id, lemma, language, ... FROM lexicon.lemmas WHERE lemma_id ="
KwForms == "SELECT form_id, form, morphology, frequency, relative_frequency FROM lexicon.forms WHERE lemma_id ="
KwAttestations == "SELECT dimension_type, dimension_value, frequency, document_count FROM lexicon.lemma_attestations WHERE lemma_id ="
KwEtymology == "SELECT er.relation_id, ... FROM lexicon.etymology_relations er LEFT JOIN lexicon.lemmas le ON er.target_lemma_id = le.lemma_id WHERE er.source_lemma_id ="
KwTop20 == "ORDER BY frequency DESC LIMIT 20"
KwTokensLemma == "SELECT token_id, segment_id, document_id, form, order FROM corpus.token_instances WHERE lemma_id ="
KwContextLemma == "SELECT s.segment_id, s.text, d.title, d.document_id FROM corpus.segments s JOIN corpus.documents d ON s.document_id = d.document_id WHERE s.segment_id IN ("

lemmaSql(lemmaId) == <<KwLemma>> \o Quoted(escapeSQLLemma(lemmaId))
formsSql(lemmaId) == <<KwForms>> \o Quoted(escapeSQLLemma(lemmaId)) \o <<KwTop20>>
attestationsSql(lemmaId) == <<KwAttestations>> \o Quoted(escapeSQLLemma(lemmaId)) \o <<KwTop20>>
etymSql(lemmaId) == <<KwEtymology>> \o Quoted(escapeSQLLemma(lemmaId))

tokensSqlLemma(lemmaId, limit) ==
    <<KwTokensLemma>> \o Quoted(escapeSQLLemma(lemmaId)) \o <<KwLimit>> \o DecimalText(limit)

contextSqlLemma(tokens) ==
    <<KwContextLemma>>
    \o Join(Map(tokens, LAMBDA t : Quoted(escapeSQLLemma(t.segment_id))))
    \o <<KwClose>>

(***************************************************************************)
(* The SQL text of the dictionary search                                   *)
(***************************************************************************)
AutocompleteLimit == 10
KwSearch == "SELECT lemma_id, lemma, language, pos, gloss_en, frequency, sahidic_form, bohairic_form, transliteration FROM lexicon.lemmas WHERE language ="
KwLikeLemma == "AND ( LOWER(lemma) LIKE"
KwLikeTransliteration == "OR LOWER(transliteration) LIKE"
KwLikeSahidic == "OR LOWER(sahidic_form) LIKE"
KwLikeBohairic == "OR LOWER(bohairic_form) LIKE"
KwSearchOrder == ") ORDER BY frequency DESC NULLS LAST LIMIT"

\* `%${normalized.replace(/'/g, "''")}%`
searchPattern(normalized) == <<"%">> \o ReplaceQuotes(normalized) \o <<"%">>

searchSql(normalized, language) ==
    LET pattern == searchPattern(normalized)
    IN  <<KwSearch>> \o Quoted(language)
        \o <<KwLikeLemma>> \o Quoted(pattern)
        \o <<KwLikeTransliteration>> \o Quoted(pattern)
        \o <<KwLikeSahidic>> \o Quoted(pattern)
        \o <<KwLikeBohairic>> \o Quoted(pattern)
        \o <<KwSearchOrder>> \o DecimalText(AutocompleteLimit)

(***************************************************************************)
(* The SQL text of the query builder's concordance template                *)
(***************************************************************************)
KwTemplateConcordance == "SELECT token_id, segment_id, form, lemma_id, lang FROM corpus.token_instances WHERE lemma_id ="

\* templates.concordance.buildSQL(params)
buildSQL(params) ==
    <<KwTemplateConcordance>> \o Quoted(params.lemma_id) \o <<KwLimit>> \o params.limit

(***************************************************************************)
(* The SQL text of the query builder's frequency comparison template       *)
(***************************************************************************)
KwTemplateFrequency == "SELECT l.lemma, l.language, l.gloss_en, la.dimension_value, la.frequency, la.document_count FROM lexicon.lemma_attestations la JOIN lexicon.lemmas l ON la.lemma_id = l.lemma_id WHERE la.lemma_id IN ("
KwAndDimension == "AND la.dimension_type ="
KwAndFrequency == "AND la.frequency >="
KwFrequencyOrder == "ORDER BY la.dimension_value, la.frequency DESC;"

\* text.split(',')
RECURSIVE SplitCommas(_, _)
SplitCommas(text, part) ==
    IF text = <<>> THEN <<part>>
    ELSE IF Head(text) = "," THEN <<part>> \o SplitCommas(Tail(text), <<>>)
    ELSE SplitCommas(Tail(text), Append(part, Head(text)))

\* params.lemma_ids.split(',').map(id => id.trim()).filter(id => id)
lemmaIds(params) ==
    SelectSeq(Map(SplitCommas(params.lemma_ids, <<>>), Trim), LAMBDA id : ~IsFalsy(id))

\* array.join(', ')
RECURSIVE JoinSpaced(_)
JoinSpaced(parts) ==
    IF parts = <<>> THEN <<>>
    ELSE IF Len(parts) = 1 THEN parts[1]
    ELSE parts[1] \o <<",", Space>> \o JoinSpaced(Tail(parts))

\* templates.frequencyComparison.buildSQL(params)
buildFrequencySQL(params) ==
    <<KwTemplateFrequency>> \o JoinSpaced(Map(lemmaIds(params), Quoted)) \o <<KwClose>>
    \o <<KwAndDimension>> \o Quoted(params.dimension_type)
    \o (IF ~IsFalsy(params.min_frequency)
        THEN <<KwAndFrequency>> \o params.min_frequency
        ELSE <<>>)
    \o <<KwFrequencyOrder>>

(***************************************************************************)
(* The SQL text of the query builder's form variation template            *)
(***************************************************************************)
KwFormsWithMorphology == "SELECT f.form, f.morphology, f.frequency, f.relative_frequency, ROUND(f.relative_frequency * 100, 2) as percentage"
KwFormsPlain == "SELECT f.form, f.frequency, ROUND(f.relative_frequency * 100, 2) as percentage"
KwFormsOfLemma == "FROM lexicon.forms f WHERE f.lemma_id ="
KwAndFormFrequency == "AND f.frequency >="
KwFormOrder == "ORDER BY f.frequency DESC;"

\* templates.formVariation.buildSQL(params)
buildFormVariationSQL(params) ==
    <<IF ~IsFalsy(params.show_morphology) THEN KwFormsWithMorphology ELSE KwFormsPlain>>
    \o <<KwFormsOfLemma>> \o Quoted(params.lemma_id)
    \o (IF ~IsFalsy(params.min_frequency)
        THEN <<KwAndFormFrequency>> \o params.min_frequency
        ELSE <<>>)
    \o <<KwFormOrder>>

(***************************************************************************)
(* The embedded engine: how conn.query reads an SQL text                   *)
(***************************************************************************)
\* A string literal starts after an opening quote at position i - 1; two
\* consecutive quotes inside it stand for one quote, a single quote ends it.
RECURSIVE ReadLiteral(_, _, _)
ReadLiteral(text, i, acc) ==
    IF i > Len(text) THEN [ok |-> FALSE, value |-> acc, next |-> i]
    ELSE IF text[i] = Quote
         THEN IF i + 1 <= Len(text) /\ text[i + 1] = Quote
              THEN ReadLiteral(text, i + 2, Append(acc, Quote))
              ELSE [ok |-> TRUE, value |-> acc, next |-> i + 1]
         ELSE ReadLiteral(text, i + 1, Append(acc, text[i]))

Kw(word) == [k |-> "kw", v |-> <<word>>]
Lit(value) == [k |-> "lit", v |-> value]
Unterminated == [k |-> "err", v |-> <<>>]

\* The lexemes of an SQL text: string literals (decoded) and everything else.
RECURSIVE LexFrom(_, _)
LexFrom(text, i) ==
    IF i > Len(text) THEN <<>>
    ELSE IF text[i] = Quote
         THEN LET r == ReadLiteral(text, i + 1, <<>>)
              IN  IF r.ok THEN <<Lit(r.value)>> \o LexFrom(text, r.next)
                  ELSE <<Unterminated>>
         ELSE IF text[i] = Space THEN LexFrom(text, i + 1)
         ELSE <<Kw(text[i])>> \o LexFrom(text, i + 1)

Lex(text) == LexFrom(text, 1)

\* The literals of  lit , lit , ... )  starting at lexeme i.
RECURSIVE InList(_, _, _)
InList(lx, i, acc) ==
    IF i + 1 > Len(lx) \/ lx[i].k # "lit"
    THEN [ok |-> FALSE, values |-> acc, next |-> i]
    ELSE IF lx[i + 1] = Kw(",") THEN InList(lx, i + 2, acc \cup {lx[i].v})
    ELSE IF lx[i + 1] = Kw(KwClose)
         THEN [ok |-> TRUE, values |-> acc \cup {lx[i].v}, next |-> i + 2]
    ELSE [ok |-> FALSE, values |-> acc, next |-> i]

IsDigit(lexeme) == \E n \in 1..10 : lexeme = Kw(Digits[n])
DigitOf(lexeme) == (CHOOSE n \in 1..10 : lexeme = Kw(Digits[n])) - 1

\* The number written by the digits from lexeme i on.
RECURSIVE ReadNumber(_, _, _)
ReadNumber(lx, i, acc) ==
    IF i <= Len(lx) /\ IsDigit(lx[i])
    THEN ReadNumber(lx, i + 1,
                    [ok |-> TRUE, value |-> acc.value * 10 + DigitOf(lx[i]), next |-> i + 1])
    ELSE acc
NumberAt(lx, i) == ReadNumber(lx, i, [ok |-> FALSE, value |-> 0, next |-> i])

Prefix(s, n) == SubSeq(s, 1, IF n < Len(s) THEN n ELSE Len(s))

Rows(r) == [ok |-> TRUE, rows |-> r, message |-> ""]
Failure(m) == [ok |-> FALSE, rows |-> <<>>, message |-> m]
ParserError == "Parser Error"
EngineFault == "_setThrew is not defined"

\* corpus.segments s JOIN corpus.documents d ON s.document_id = d.document_id
JoinedSegments(d) ==
    LET DocOf(s) == SelectSeq(d.documents, LAMBDA doc : doc.document_id = s.document_id)
        Joined(s) == [segment_id |-> s.segment_id,
                      document_id |-> s.document_id,
                      dialect |-> DocOf(s)[1].dialect,
                      collection_id |-> DocOf(s)[1].collection_id]
    IN  Map(SelectSeq(d.segments, LAMBDA s : DocOf(s) # <<>>), Joined)

\* SELECT ... FROM corpus.token_instances WHERE lemma_id = '..' LIMIT n
SelectTokens(d, lx) ==
    IF /\ Len(lx) >= 4 /\ lx[2].k = "lit" /\ lx[3] = Kw(KwLimit)
       /\ NumberAt(lx, 4).ok /\ NumberAt(lx, 4).next = Len(lx) + 1
    THEN Rows(Prefix(Map(SelectSeq(d.token_instances, LAMBDA t : t.lemma_id = lx[2].v),
                         LAMBDA t : [token_id |-> t.token_id, segment_id |-> t.segment_id]),
                     NumberAt(lx, 4).value))
    ELSE Failure(ParserError)

\* SELECT ... FROM segments JOIN documents WHERE s.segment_id IN (..) [AND d.dialect = '..']
SelectContexts(d, lx) ==
    LET in == InList(lx, 2, {})
    IN  IF in.ok /\ in.next = Len(lx) + 1
        THEN Rows(SelectSeq(JoinedSegments(d), LAMBDA c : c.segment_id \in in.values))
        ELSE IF in.ok /\ in.next + 1 = Len(lx) /\ lx[in.next] = Kw(KwAndDialect)
                /\ lx[in.next + 1].k = "lit"
        THEN Rows(SelectSeq(JoinedSegments(d),
                            LAMBDA c : c.segment_id \in in.values
                                       /\ c.dialect = lx[in.next + 1].v))
        ELSE Failure(ParserError)

\* SELECT collection_id, name FROM corpus.collections WHERE collection_id IN (..) [AND collection_id = '..']
SelectCollections(d, lx) ==
    LET in == InList(lx, 2, {})
    IN  IF in.ok /\ in.next = Len(lx) + 1
        THEN Rows(SelectSeq(d.collections, LAMBDA c : c.collection_id \in in.values))
        ELSE IF in.ok /\ in.next + 1 = Len(lx) /\ lx[in.next] = Kw(KwAndCollection)
                /\ lx[in.next + 1].k = "lit"
        THEN Rows(SelectSeq(d.collections,
                            LAMBDA c : c.collection_id \in in.values
                                       /\ c.collection_id = lx[in.next + 1].v))
        ELSE Failure(ParserError)

\* SELECT ... FROM segments JOIN documents WHERE s.segment_id IN (..)
SelectContextsLemma(d, lx) ==
    LET in == InList(lx, 2, {})
    IN  IF in.ok /\ in.next = Len(lx) + 1
        THEN Rows(Map(SelectSeq(JoinedSegments(d), LAMBDA c : c.segment_id \in in.values),
                      LAMBDA c : [segment_id |-> c.segment_id, document_id |-> c.document_id]))
        ELSE Failure(ParserError)

\* SELECT ... FROM lexicon.lemmas WHERE lemma_id = '..'
SelectLemma(d, lx) ==
    IF Len(lx) = 2 /\ lx[2].k = "lit"
    THEN Rows(SelectSeq(d.lemmas, LAMBDA l : l.lemma_id = lx[2].v))
    ELSE Failure(ParserError)

\* the forms, attestations and etymology of a lemma: the rows of these tables
\* are not looked at by the callers modelled here, the tables are kept empty
SelectOfLemma(d, lx) ==
    IF /\ Len(lx) \in {2, 3} /\ lx[2].k = "lit"
       /\ Len(lx) = 3 => lx[3] = Kw(KwTop20) /\ lx[1] # Kw(KwEtymology)
       /\ Len(lx) = 2 => lx[1] = Kw(KwEtymology)
    THEN Rows(<<>>)
    ELSE Failure(ParserError)

\* value LIKE pattern:  % stands for any characters, _ for any one character
RECURSIVE Like(_, _)
Like(value, pattern) ==
    IF pattern = <<>> THEN value = <<>>
    ELSE IF Head(pattern) = "%"
         THEN Like(value, Tail(pattern)) \/ (value # <<>> /\ Like(Tail(value), pattern))
         ELSE /\ value # <<>>
              /\ Head(pattern) = "_" \/ Head(pattern) = Head(value)
              /\ Like(Tail(value), Tail(pattern))

\* LOWER(column) LIKE pattern, which is not true of a NULL column
LowerLike(column, pattern) == column # Null /\ Like(ToLower(column), pattern)

\* ORDER BY frequency DESC (the frequencies of the table are distinct)
RECURSIVE ByFrequency(_)
ByFrequency(rows) ==
    IF rows = <<>> THEN <<>>
    ELSE LET top == CHOOSE i \in 1..Len(rows) :
                        \A j \in 1..Len(rows) : rows[j].frequency <= rows[i].frequency
         IN  <<rows[top]>>
             \o ByFrequency(SubSeq(rows, 1, top - 1) \o SubSeq(rows, top + 1, Len(rows)))

\* SELECT ... FROM lexicon.lemmas WHERE language = '..' AND (LOWER(lemma) LIKE '..' OR ...)
\* ORDER BY frequency DESC NULLS LAST LIMIT n
SelectSearch(d, lx) ==
    IF /\ Len(lx) >= 12
       /\ \A i \in {2, 4, 6, 8, 10} : lx[i].k = "lit"
       /\ lx[3] = Kw(KwLikeLemma) /\ lx[5] = Kw(KwLikeTransliteration)
       /\ lx[7] = Kw(KwLikeSahidic) /\ lx[9] = Kw(KwLikeBohairic)
       /\ lx[11] = Kw(KwSearchOrder)
       /\ NumberAt(lx, 12).ok /\ NumberAt(lx, 12).next = Len(lx) + 1
    THEN Rows(Prefix(ByFrequency(SelectSeq(d.lemmas,
                         LAMBDA l : /\ l.language = lx[2].v
                                    /\ \/ LowerLike(l.lemma, lx[4].v)
                                       \/ LowerLike(l.transliteration, lx[6].v)
                                       \/ LowerLike(l.sahidic_form, lx[8].v)
                                       \/ LowerLike(l.bohairic_form, lx[10].v))),
                     NumberAt(lx, 12).value))
    ELSE Failure(ParserError)

\* SELECT ... FROM lexicon.lemma_attestations la JOIN lexicon.lemmas l
\* WHERE la.lemma_id IN (..) AND la.dimension_type = '..' [AND la.frequency >= n] ORDER BY ..
\* (the attestations table is empty)
SelectFrequency(d, lx) ==
    LET in == InList(lx, 2, {})
        n == in.next
    IN  IF /\ in.ok /\ n + 2 <= Len(lx)
           /\ lx[n] = Kw(KwAndDimension) /\ lx[n + 1].k = "lit"
           /\ \/ n + 2 = Len(lx)
              \/ /\ lx[n + 2] = Kw(KwAndFrequency)
                 /\ NumberAt(lx, n + 3).ok /\ NumberAt(lx, n + 3).next = Len(lx)
           /\ lx[Len(lx)] = Kw(KwFrequencyOrder)
        THEN Rows(<<>>)
        ELSE Failure(ParserError)

\* SELECT ... FROM lexicon.forms f WHERE f.lemma_id = '..' [AND f.frequency >= n] ORDER BY ..
\* (the forms table is empty)
SelectFormVariation(d, lx) ==
    IF /\ Len(lx) >= 4
       /\ lx[2] = Kw(KwFormsOfLemma) /\ lx[3].k = "lit"
       /\ \/ Len(lx) = 4
          \/ /\ lx[4] = Kw(KwAndFormFrequency)
             /\ NumberAt(lx, 5).ok /\ NumberAt(lx, 5).next = Len(lx)
       /\ lx[Len(lx)] = Kw(KwFormOrder)
    THEN Rows(<<>>)
    ELSE Failure(ParserError)

\* What the engine answers to an SQL text when it does not break down.
Execute(d, sql) ==
    LET lx == Lex(sql)
    IN  IF lx = <<>> THEN Failure(ParserError)
        ELSE IF lx[1] \in {Kw(KwTokens), Kw(KwTokensLemma), Kw(KwTemplateConcordance)}
             THEN SelectTokens(d, lx)
        ELSE IF lx[1] = Kw(KwSearch) THEN SelectSearch(d, lx)
        ELSE IF lx[1] = Kw(KwTemplateFrequency) THEN SelectFrequency(d, lx)
        ELSE IF lx[1] \in {Kw(KwFormsWithMorphology), Kw(KwFormsPlain)}
             THEN SelectFormVariation(d, lx)
        ELSE IF lx[1] = Kw(KwContext) THEN SelectContexts(d, lx)
        ELSE IF lx[1] = Kw(KwCollections) THEN SelectCollections(d, lx)
        ELSE IF lx[1] = Kw(KwContextLemma) THEN SelectContextsLemma(d, lx)
        ELSE IF lx[1] = Kw(KwLemma) THEN SelectLemma(d, lx)
        ELSE IF lx[1] \in {Kw(KwForms), Kw(KwAttestations), Kw(KwEtymology)}
             THEN SelectOfLemma(d, lx)
        ELSE Failure(ParserError)

\* conn.query(sql) settles with the answer or with a runtime-internal error.
Settle(d, sql) == {Execute(d, sql), Failure(EngineFault)}

(***************************************************************************)
(* The database files                                                      *)
(***************************************************************************)
LemmaIds == {<<"egy:lemma:", "f">>, <<"egy:lemma:", Quote, "f">>}
SegOrder == <<<<"seg:", "a">>, <<"seg:", Quote>>>>
SegIds == {SegOrder[i] : i \in 1..Len(SegOrder)}
Sahidic == <<"SAHIDIC">>
Bohairic == <<"BOHAIRIC">>
CollectionA == <<"sahidic.nt">>
CollectionB == <<"martyrdoms">>

Documents ==
    << [document_id |-> <<"doc:", "1">>, dialect |-> Sahidic, collection_id |-> CollectionA,
        date_from |-> 300, date_to |-> 350],
       [document_id |-> <<"doc:", "2">>, dialect |-> Sahidic, collection_id |-> CollectionB,
        date_from |-> 600, date_to |-> 650],
       [document_id |-> <<"doc:", "3">>, dialect |-> Sahidic, collection_id |-> Null,
        date_from |-> 300, date_to |-> 350],
       [document_id |-> <<"doc:", "4">>, dialect |-> Bohairic, collection_id |-> CollectionA,
        date_from |-> 600, date_to |-> 650],
       [document_id |-> <<"doc:", "5">>, dialect |-> Bohairic, collection_id |-> CollectionB,
        date_from |-> 300, date_to |-> 350],
       [document_id |-> <<"doc:", "6">>, dialect |-> Bohairic, collection_id |-> Null,
        date_from |-> 600, date_to |-> 650] >>
DocIds == {Documents[i].document_id : i \in 1..Len(Documents)}
NoRow == <<"no row">>

Collections ==
    << [collection_id |-> CollectionA, name |-> <<"Sahidic New Testament">>],
       [collection_id |-> CollectionB, name |-> <<"Martyrdoms">>] >>

TokenId(i) == <<"tok:">> \o DecimalText(i)

TokenTables ==
    UNION { { [i \in 1..n |-> [token_id |-> TokenId(i),
                               segment_id |-> f[i].segment_id,
                               lemma_id |-> f[i].lemma_id]] :
              f \in [1..n -> [segment_id : SegIds, lemma_id : LemmaIds]] } :
            n \in 0..MaxTokens }

SegmentTables ==
    { Map(SelectSeq(SegOrder, LAMBDA s : f[s] # NoRow),
          LAMBDA s : [segment_id |-> s, document_id |-> f[s]]) :
      f \in [SegIds -> DocIds \cup {NoRow}] }

CollectionTables == {Collections, Prefix(Collections, 1)}

Egyptian == <<"egy">>
Coptic == <<"cop">>

Lemmas ==
    << [lemma_id |-> <<"egy:lemma:", "f">>, lemma |-> <<"A", "b">>, language |-> Egyptian,
        transliteration |-> <<"f">>, sahidic_form |-> Null, bohairic_form |-> Null,
        frequency |-> 7],
       [lemma_id |-> <<"egy:lemma:", Quote, "f">>, lemma |-> <<"a", Quote, "b">>,
        language |-> Egyptian, transliteration |-> Null, sahidic_form |-> Null,
        bohairic_form |-> Null, frequency |-> 9] >>
UnknownLemma == <<"egy:lemma:", "b">>

Databases ==
    [token_instances : TokenTables, segments : SegmentTables,
     documents : {Documents}, collections : CollectionTables, lemmas : {Lemmas}]

(***************************************************************************)
(* DatabaseManager.query                                                   *)
(***************************************************************************)
NotReady == "Database not ready"

\* conn.query(sql) is called: the query is in flight until it settles
Issue(q) == inflight' = inflight \cup {q}

\* the awaited conn.query(sql) of q has settled
Settled(q) == inflight' = inflight \ {q}

\* user gestures made so far
Gestures ==
    Len(dict.calls) + qb.gestures + Len(ed.runs)
    + (IF ld.pc = "idle" THEN 0 ELSE 1) + (IF cv.pc = "idle" THEN 0 ELSE 1)

(***************************************************************************)
(* ConcordanceView                                                         *)
(***************************************************************************)
\* the date ranges a request asks for: none, or the years 200 to 400
DateRanges ==
    {[dateFrom |-> Null, dateTo |-> Null],
     [dateFrom |-> DecimalText(200), dateTo |-> DecimalText(400)]}

NoFilters == [collection |-> Null, dialect |-> Null, dateFrom |-> Null, dateTo |-> Null]

CvIdle ==
    [pc |-> "idle", lemmaId |-> Null, limit |-> 0, filters |-> NoFilters,
     stages |-> <<>>, tokens |-> <<>>, contexts |-> <<>>, collections |-> <<>>,
     currentResults |-> <<>>, shown |-> "blank", error |-> ""]

CvQuery(stage, sql) == [owner |-> "cv", call |-> 0, stage |-> stage, sql |-> sql]

\* value || ''
OrEmpty(v) == IF IsFalsy(v) THEN <<>> ELSE v

\* collections[id] of the object built by Object.fromEntries
NameOf(collections, id) ==
    LET m == SelectSeq(collections, LAMBDA c : c.collection_id = id)
    IN  IF m = <<>> THEN Null ELSE m[Len(m)].name

RECURSIVE Flatten(_)
Flatten(parts) == IF parts = <<>> THEN <<>> ELSE Head(parts) \o Flatten(Tail(parts))

\* MergeToken as a left join: a token without context keeps an empty record
MergeToken_LeftJoin(token, contexts, collections, filters) ==
    LET found == SelectSeq(contexts, LAMBDA c : c.segment_id = token.segment_id)
        context == found[1]
    IN  IF found = <<>>
        THEN << [token_id |-> token.token_id, segment_id |-> token.segment_id,
                 document_id |-> <<>>, dialect |-> <<>>, collection_id |-> <<>>,
                 collection_name |-> <<>>] >>
        ELSE IF ~IsFalsy(filters.collection) /\ context.collection_id # filters.collection
        THEN <<>>
        ELSE << [token_id |-> token.token_id,
                 segment_id |-> token.segment_id,
                 document_id |-> OrEmpty(context.document_id),
                 dialect |-> OrEmpty(context.dialect),
                 collection_id |-> OrEmpty(context.collection_id),
                 collection_name |-> OrEmpty(NameOf(collections, context.collection_id))] >>

\* MergeToken without the collection test
MergeToken_NoCollectionTest(token, contexts, collections, filters) ==
    LET found == SelectSeq(contexts, LAMBDA c : c.segment_id = token.segment_id)
        context == found[1]
    IN  IF found = <<>> THEN <<>>
        ELSE << [token_id |-> token.token_id,
                 segment_id |-> token.segment_id,
                 document_id |-> OrEmpty(context.document_id),
                 dialect |-> OrEmpty(context.dialect),
                 collection_id |-> OrEmpty(context.collection_id),
                 collection_name |-> OrEmpty(NameOf(collections, context.collection_id))] >>

\* the callback of tokens.map: <<>> stands for null, <<r>> for the record r
MergeToken(token, contexts, collections, filters) ==
    LET found == SelectSeq(contexts, LAMBDA c : c.segment_id = token.segment_id)
        context == found[1]
    IN  IF found = <<>> THEN <<>>
        ELSE IF ~IsFalsy(filters.collection) /\ context.collection_id # filters.collection
        THEN <<>>
        ELSE << [token_id |-> token.token_id,
                 segment_id |-> token.segment_id,
                 document_id |-> OrEmpty(context.document_id),
                 dialect |-> OrEmpty(context.dialect),
                 collection_id |-> OrEmpty(context.collection_id),
                 collection_name |-> OrEmpty(NameOf(collections, context.collection_id))] >>

\* Merge driven by the context rows instead of the token rows
Merge_ByContext(tokens, contexts, collections, filters) ==
    Flatten(Map(contexts,
                LAMBDA c : Flatten(Map(SelectSeq(tokens, LAMBDA t : t.segment_id = c.segment_id),
                                       LAMBDA t : MergeToken(t, contexts, collections, filters)))))

\* tokens.map(...).filter(Boolean)
Merge(tokens, contexts, collections, filters) ==
    Flatten(Map(tokens, LAMBDA t : MergeToken(t, contexts, collections, filters)))

\* loadConcordance after fetchConcordance resolved with results
CvRendered(c, results) ==
    [c EXCEPT !.pc = "done", !.currentResults = results, !.shown = "rendered"]

\* a catch that keeps and renders the rows fetched before the failure
CvFailed_PartialResult(c, message) ==
    [c EXCEPT !.pc = "failed", !.shown = "rendered", !.error = message,
              !.currentResults = c.tokens]

\* loadConcordance after fetchConcordance threw
CvFailed(c, message) == [c EXCEPT !.pc = "failed", !.shown = "error", !.error = message]

\* loadConcordance(lemmaId, options), up to the first await of fetchConcordance
loadConcordance ==
    \E lemmaId \in LemmaIds \cup {Null, <<>>}, limit \in 0..MaxLimit,
       dialect \in {Null, Sahidic}, collection \in {Null, CollectionA},
       dates \in DateRanges :
        LET filters == [collection |-> collection, dialect |-> dialect,
                        dateFrom |-> dates.dateFrom, dateTo |-> dates.dateTo]
            call == [cv EXCEPT !.lemmaId = lemmaId, !.limit = limit, !.filters = filters]
        IN  /\ cv.pc = "idle" /\ Gestures < MaxGestures
            /\ IF isReady
               THEN /\ cv' = [call EXCEPT !.pc = "primary", !.stages = <<"primary">>]
                    /\ Issue(CvQuery("primary", tokensSql(lemmaId, limit)))
               ELSE /\ cv' = CvFailed(call, NotReady)
                    /\ UNCHANGED inflight
            /\ UNCHANGED <<db, isReady, ld, dict, qb, ed, esc, exp, mgr, app>>

\* CvTokensSettled without the return on an empty token result
CvTokensSettled_NoShortCircuit ==
    \E q \in inflight : \E r \in Settle(db, q.sql) :
        /\ q.owner = "cv" /\ q.stage = "primary"
        /\ IF ~r.ok
           THEN cv' = CvFailed(cv, r.message) /\ Settled(q)
           ELSE /\ cv' = [cv EXCEPT !.pc = "context", !.tokens = r.rows,
                                    !.stages = Append(@, "context")]
                /\ inflight' = (inflight \ {q})
                                \cup {CvQuery("context", contextSql(r.rows, cv.filters))}
        /\ UNCHANGED <<db, isReady, ld, dict, qb, ed, esc, exp, mgr, app>>

\* fetchConcordance from the end of the token query to the next await
CvTokensSettled ==
    \E q \in inflight : \E r \in Settle(db, q.sql) :
        /\ q.owner = "cv" /\ q.stage = "primary"
        /\ IF ~r.ok
           THEN cv' = CvFailed(cv, r.message) /\ Settled(q)
           ELSE IF Len(r.rows) = 0
           THEN cv' = CvRendered([cv EXCEPT !.tokens = r.rows], <<>>) /\ Settled(q)
           ELSE /\ cv' = [cv EXCEPT !.pc = "context", !.tokens = r.rows,
                                    !.stages = Append(@, "context")]
                /\ inflight' = (inflight \ {q})
                                \cup {CvQuery("context", contextSql(r.rows, cv.filters))}
        /\ UNCHANGED <<db, isReady, ld, dict, qb, ed, esc, exp, mgr, app>>

\* fetchConcordance from the end of the context query to the next await or the return
CvContextsSettled ==
    \E q \in inflight : \E r \in Settle(db, q.sql) :
        /\ q.owner = "cv" /\ q.stage = "context"
        /\ IF ~r.ok
           THEN cv' = CvFailed(cv, r.message) /\ Settled(q)
           ELSE LET ids == collectionIds(r.rows)
                IN  IF Len(ids) > 0
                    THEN /\ cv' = [cv EXCEPT !.pc = "tertiary", !.contexts = r.rows,
                                             !.stages = Append(@, "tertiary")]
                         /\ inflight' = (inflight \ {q})
                                         \cup {CvQuery("tertiary", collectionSql(ids, cv.filters))}
                    ELSE /\ cv' = CvRendered([cv EXCEPT !.contexts = r.rows],
                                             Merge(cv.tokens, r.rows, <<>>, cv.filters))
                         /\ Settled(q)
        /\ UNCHANGED <<db, isReady, ld, dict, qb, ed, esc, exp, mgr, app>>

\* fetchConcordance from the end of the collection query to the return
CvCollectionsSettled ==
    \E q \in inflight : \E r \in Settle(db, q.sql) :
        /\ q.owner = "cv" /\ q.stage = "tertiary"
        /\ Settled(q)
        /\ IF ~r.ok
           THEN cv' = CvFailed(cv, r.message)
           ELSE cv' = CvRendered([cv EXCEPT !.collections = r.rows],
                                 Merge(cv.tokens, cv.contexts, r.rows, cv.filters))
        /\ UNCHANGED <<db, isReady, ld, dict, qb, ed, esc, exp, mgr, app>>

\* the text showError puts into the container after a failure
CvErrorShown(c) == <<"Failed to load concordance: ", c.error>>

NextCv == loadConcordance \/ CvTokensSettled \/ CvContextsSettled \/ CvCollectionsSettled

(***************************************************************************)
(* LemmaDetail                                                             *)
(***************************************************************************)
LemmaConcordanceLimit == 5

LdIdle ==
    [pc |-> "idle", lemmaId |-> Null, currentLemma |-> Null, stages |-> <<>>,
     tokens |-> <<>>, contexts |-> <<>>, concordance |-> <<>>,
     shown |-> "blank", error |-> "", warned |-> FALSE]

LdQuery(stage, sql) == [owner |-> "ld", call |-> 0, stage |-> stage, sql |-> sql]

\* LdMerge that drops the tokens without context
LdMerge_InnerJoin(tokens, contexts, lemmaId) ==
    LET Found(t) == SelectSeq(contexts, LAMBDA c : c.segment_id = t.segment_id)
    IN  Map(SelectSeq(tokens, LAMBDA t : Found(t) # <<>>),
            LAMBDA t : [token_id |-> t.token_id, segment_id |-> t.segment_id,
                        lemma_id |-> lemmaId,
                        document_id |-> OrEmpty(Found(t)[1].document_id)])

\* tokens.map(token => ({... context?.document_id || '' }))
LdMerge(tokens, contexts, lemmaId) ==
    LET Found(t) == SelectSeq(contexts, LAMBDA c : c.segment_id = t.segment_id)
    IN  Map(tokens,
            LAMBDA t : [token_id |-> t.token_id, segment_id |-> t.segment_id,
                        lemma_id |-> lemmaId,
                        document_id |-> IF Found(t) = <<>> THEN <<>>
                                        ELSE OrEmpty(Found(t)[1].document_id)])

\* the outer catch of loadLemma
LdFailed(l, message) == [l EXCEPT !.pc = "failed", !.shown = "error", !.error = message]

\* loadLemma from the return (or the caught throw) of fetchConcordance to render
LdRendered(l, concordance) ==
    [l EXCEPT !.pc = "done", !.concordance = concordance, !.shown = "rendered"]

\* loadLemma(lemmaId), up to the await of fetchLemmaData
loadLemma ==
    \E lemmaId \in {Lemmas[i].lemma_id : i \in 1..Len(Lemmas)} \cup {UnknownLemma} :
        /\ ld.pc = "idle" /\ Gestures < MaxGestures
        /\ IF isReady
           THEN /\ ld' = [ld EXCEPT !.pc = "lemma", !.lemmaId = lemmaId,
                                    !.stages = <<"lemma">>]
                /\ Issue(LdQuery("lemma", lemmaSql(lemmaId)))
           ELSE /\ ld' = LdFailed([ld EXCEPT !.lemmaId = lemmaId], NotReady)
                /\ UNCHANGED inflight
        /\ UNCHANGED <<db, isReady, cv, dict, qb, ed, esc, exp, mgr, app>>

\* LdLemmaSettled that starts fetchForms, fetchAttestations and fetchEtymology
\* together (Promise.all) instead of awaiting them in turn
LdLemmaSettled_Parallel ==
    \E q \in inflight : \E r \in Settle(db, q.sql) :
        /\ q.owner = "ld" /\ q.stage = "lemma"
        /\ IF ~r.ok
           THEN ld' = LdFailed(ld, r.message) /\ Settled(q)
           ELSE IF Len(r.rows) = 0
           THEN ld' = [ld EXCEPT !.pc = "notfound", !.shown = "error"] /\ Settled(q)
           ELSE /\ ld' = [ld EXCEPT !.pc = "forms", !.currentLemma = r.rows[1].lemma_id,
                                    !.stages = Append(@, "forms")]
                /\ inflight' = (inflight \ {q})
                                \cup {LdQuery("forms", formsSql(ld.lemmaId)),
                                      LdQuery("attestations", attestationsSql(ld.lemmaId)),
                                      LdQuery("etymology", etymSql(ld.lemmaId))}
        /\ UNCHANGED <<db, isReady, cv, dict, qb, ed, esc, exp, mgr, app>>

\* loadLemma from the end of fetchLemmaData to the await of fetchForms
LdLemmaSettled ==
    \E q \in inflight : \E r \in Settle(db, q.sql) :
        /\ q.owner = "ld" /\ q.stage = "lemma"
        /\ IF ~r.ok
           THEN ld' = LdFailed(ld, r.message) /\ Settled(q)
           ELSE IF Len(r.rows) = 0
           THEN ld' = [ld EXCEPT !.pc = "notfound", !.shown = "error"] /\ Settled(q)
           ELSE /\ ld' = [ld EXCEPT !.pc = "forms", !.currentLemma = r.rows[1].lemma_id,
                                    !.stages = Append(@, "forms")]
                /\ inflight' = (inflight \ {q}) \cup {LdQuery("forms", formsSql(ld.lemmaId))}
        /\ UNCHANGED <<db, isReady, cv, dict, qb, ed, esc, exp, mgr, app>>

\* loadLemma from the end of fetchForms to the await of fetchAttestations
LdFormsSettled ==
    \E q \in inflight : \E r \in Settle(db, q.sql) :
        /\ q.owner = "ld" /\ q.stage = "forms"
        /\ IF ~r.ok
           THEN ld' = LdFailed(ld, r.message) /\ Settled(q)
           ELSE /\ ld' = [ld EXCEPT !.pc = "attestations",
                                    !.stages = Append(@, "attestations")]
                /\ inflight' = (inflight \ {q})
                                \cup {LdQuery("attestations", attestationsSql(ld.lemmaId))}
        /\ UNCHANGED <<db, isReady, cv, dict, qb, ed, esc, exp, mgr, app>>

\* loadLemma from the end of fetchAttestations to the await of fetchEtymology
LdAttestationsSettled ==
    \E q \in inflight : \E r \in Settle(db, q.sql) :
        /\ q.owner = "ld" /\ q.stage = "attestations"
        /\ IF ~r.ok
           THEN ld' = LdFailed(ld, r.message) /\ Settled(q)
           ELSE /\ ld' = [ld EXCEPT !.pc = "etymology", !.stages = Append(@, "etymology")]
                /\ inflight' = (inflight \ {q})
                                \cup {LdQuery("etymology", etymSql(ld.lemmaId))}
        /\ UNCHANGED <<db, isReady, cv, dict, qb, ed, esc, exp, mgr, app>>

\* loadLemma from the end of fetchEtymology into fetchConcordance(lemmaId, 5)
LdEtymologySettled ==
    \E q \in inflight : \E r \in Settle(db, q.sql) :
        /\ q.owner = "ld" /\ q.stage = "etymology"
        /\ IF ~r.ok
           THEN ld' = LdFailed(ld, r.message) /\ Settled(q)
           ELSE /\ ld' = [ld EXCEPT !.pc = "primary", !.stages = Append(@, "primary")]
                /\ inflight' = (inflight \ {q})
                                \cup {LdQuery("primary",
                                              tokensSqlLemma(ld.lemmaId, LemmaConcordanceLimit))}
        /\ UNCHANGED <<db, isReady, cv, dict, qb, ed, esc, exp, mgr, app>>

\* fetchConcordance from the end of the token query to the next await or the return
LdTokensSettled ==
    \E q \in inflight : \E r \in Settle(db, q.sql) :
        /\ q.owner = "ld" /\ q.stage = "primary"
        /\ IF ~r.ok
           THEN ld' = LdRendered([ld EXCEPT !.warned = TRUE], <<>>) /\ Settled(q)
           ELSE IF Len(r.rows) = 0
           THEN ld' = LdRendered([ld EXCEPT !.tokens = r.rows], <<>>) /\ Settled(q)
           ELSE /\ ld' = [ld EXCEPT !.pc = "context", !.tokens = r.rows,
                                    !.stages = Append(@, "context")]
                /\ inflight' = (inflight \ {q})
                                \cup {LdQuery("context", contextSqlLemma(r.rows))}
        /\ UNCHANGED <<db, isReady, cv, dict, qb, ed, esc, exp, mgr, app>>

\* fetchConcordance from the end of the context query to render
LdContextsSettled ==
    \E q \in inflight : \E r \in Settle(db, q.sql) :
        /\ q.owner = "ld" /\ q.stage = "context"
        /\ Settled(q)
        /\ IF ~r.ok
           THEN ld' = LdRendered([ld EXCEPT !.warned = TRUE], <<>>)
           ELSE ld' = LdRendered([ld EXCEPT !.contexts = r.rows],
                                 LdMerge(ld.tokens, r.rows, ld.lemmaId))
        /\ UNCHANGED <<db, isReady, cv, dict, qb, ed, esc, exp, mgr, app>>

NextLd ==
    \/ loadLemma \/ LdLemmaSettled \/ LdFormsSettled \/ LdAttestationsSettled
    \/ LdEtymologySettled \/ LdTokensSettled \/ LdContextsSettled

(***************************************************************************)
(* Dictionary                                                              *)
(***************************************************************************)
Languages == {Egyptian, Coptic}
SearchInputs == {<<"a">>, <<Space, "A", "b">>, <<"a", Quote>>}

DictIdle ==
    [calls |-> <<>>, currentResults |-> <<>>, autocomplete |-> [l \in Languages |-> <<>>]]

DictQuery(call, sql) == [owner |-> "dict", call |-> call, stage |-> "search", sql |-> sql]

\* hideAutocomplete(language): the dropdown is hidden and emptied
hideAutocomplete(d, language) == [d EXCEPT !.autocomplete[language] = <<>>]

\* showAutocomplete(results, language): an empty result hides the dropdown
showAutocomplete(d, results, language) == [d EXCEPT !.autocomplete[language] = results]

\* handleSearch(query, language), up to the await of the query
handleSearch ==
    \E query \in SearchInputs, language \in Languages :
        LET n == Len(dict.calls) + 1
            Call(pc) == [query |-> query, language |-> language, pc |-> pc]
        IN  /\ Gestures < MaxGestures
            /\ IF IsFalsy(query) \/ Len(query) < 2
               THEN /\ dict' = [hideAutocomplete(dict, language) EXCEPT
                                    !.calls = Append(@, Call("returned"))]
                    /\ UNCHANGED inflight
               ELSE IF isReady
               THEN /\ dict' = [dict EXCEPT !.calls = Append(@, Call("waiting"))]
                    /\ Issue(DictQuery(n, searchSql(normalizeForSearch(query), language)))
               ELSE /\ dict' = [dict EXCEPT !.calls = Append(@, Call("failed"))]
                    /\ UNCHANGED inflight
            /\ UNCHANGED <<db, isReady, cv, ld, qb, ed, esc, exp, mgr, app>>

\* handleSearch from the end of its query to its return
DictSearchSettled ==
    \E q \in inflight : \E r \in Settle(db, q.sql) :
        /\ q.owner = "dict"
        /\ Settled(q)
        /\ IF r.ok
           THEN dict' = [showAutocomplete(dict, r.rows, dict.calls[q.call].language) EXCEPT
                            !.calls[q.call].pc = "shown", !.currentResults = r.rows]
           ELSE dict' = [dict EXCEPT !.calls[q.call].pc = "failed"]
        /\ UNCHANGED <<db, isReady, cv, ld, qb, ed, esc, exp, mgr, app>>

NextDict == handleSearch \/ DictSearchSettled

(***************************************************************************)
(* QueryBuilder                                                            *)
(***************************************************************************)
TemplateConcordance == <<"concordance">>
TemplateFrequency == <<"frequency_comparison">>
FrequencyInputs == {<<",">>, <<"egy:lemma:", "f", ",", Space, "egy:lemma:", "b">>}
DimensionCollection == <<"COLLECTION">>
LemmaInputs == {<<Space>>, <<"egy:lemma:", "f">>, <<"egy:lemma:", Quote, "f", Space>>}

\* the params object before validateForm fills in the fields of the template
NoParams ==
    [lemma_id |-> Null, limit |-> Null,
     lemma_ids |-> Null, dimension_type |-> Null, min_frequency |-> Null,
     show_morphology |-> Null]

QbIdle ==
    [currentTemplate |-> Null, params |-> NoParams, preview |-> <<>>, previewVisible |-> FALSE,
     onclick |-> Null, disabled |-> FALSE, running |-> NoParams,
     shown |-> "blank", rows |-> <<>>, gestures |-> 0, checked |-> Null]

QbQuery(sql) == [owner |-> "qb", call |-> 0, stage |-> "execute", sql |-> sql]

\* clearResults()
clearResults(b) == [b EXCEPT !.shown = "blank", !.rows = <<>>, !.preview = <<>>]

\* handleTemplateChange(templateId) for the id of a template
handleTemplateChange ==
    \E templateId \in {TemplateConcordance, TemplateFrequency} :
        /\ Gestures < MaxGestures
        /\ qb' = [clearResults(qb) EXCEPT !.previewVisible = FALSE,
                                          !.currentTemplate = templateId,
                                          !.gestures = @ + 1]
        /\ UNCHANGED <<db, isReady, inflight, cv, ld, dict, ed, esc, exp, mgr, app>>

\* validateForm() over the inputs of the concordance template
validateForm(lemma_id, limit) ==
    [isValid |-> ~IsFalsy(Trim(lemma_id)) /\ ~IsFalsy(Trim(limit)),
     params |-> [NoParams EXCEPT !.lemma_id = Trim(lemma_id), !.limit = Trim(limit)]]

\* validateForm() over the inputs of the frequency comparison template:
\* an empty minimum frequency falls back to the default 1
validateFrequencyForm(lemma_ids, dimension_type, min_frequency) ==
    [isValid |-> ~IsFalsy(Trim(lemma_ids)) /\ ~IsFalsy(dimension_type),
     params |-> [NoParams EXCEPT
                    !.lemma_ids = Trim(lemma_ids), !.dimension_type = dimension_type,
                    !.min_frequency = IF IsFalsy(Trim(min_frequency)) THEN DecimalText(1)
                                      ELSE Trim(min_frequency)]]

\* handleGenerateSQL(): a click on Generate SQL with the frequency comparison form
handleGenerateFrequencySQL ==
    \E lemma_ids \in FrequencyInputs :
        LET validation == validateFrequencyForm(lemma_ids, DimensionCollection, <<>>)
            sql == buildFrequencySQL(validation.params)
        IN  /\ Gestures < MaxGestures
            /\ qb.currentTemplate = TemplateFrequency
            /\ IF ~validation.isValid
               THEN qb' = [qb EXCEPT !.gestures = @ + 1]
               ELSE qb' = [qb EXCEPT !.params = validation.params, !.preview = sql,
                                     !.previewVisible = TRUE, !.onclick = sql,
                                     !.gestures = @ + 1]
            /\ UNCHANGED <<db, isReady, inflight, cv, ld, dict, ed, esc, exp, mgr, app>>

\* handleGenerateSQL(): a click on Generate SQL with the concordance form
handleGenerateSQL ==
    \E lemma_id \in LemmaInputs, limit \in {DecimalText(n) : n \in 1..MaxLimit} :
        LET validation == validateForm(lemma_id, limit)
            sql == buildSQL(validation.params)
        IN  /\ Gestures < MaxGestures
            /\ qb.currentTemplate = TemplateConcordance
            /\ IF ~validation.isValid
               THEN qb' = [qb EXCEPT !.gestures = @ + 1]
               ELSE qb' = [qb EXCEPT !.params = validation.params, !.preview = sql,
                                     !.previewVisible = TRUE, !.onclick = sql,
                                     !.gestures = @ + 1]
            /\ UNCHANGED <<db, isReady, inflight, cv, ld, dict, ed, esc, exp, mgr, app>>

\* a click on Execute Query: executeQuery(sql) up to the await of the query
executeQuery ==
    /\ Gestures < MaxGestures
    /\ qb.previewVisible /\ qb.onclick # Null /\ ~qb.disabled
    /\ IF isReady
       THEN /\ qb' = [qb EXCEPT !.disabled = TRUE, !.running = qb.params, !.gestures = @ + 1]
            /\ Issue(QbQuery(qb.onclick))
       ELSE /\ qb' = [qb EXCEPT !.shown = "error", !.rows = <<>>, !.gestures = @ + 1]
            /\ UNCHANGED inflight
    /\ UNCHANGED <<db, isReady, cv, ld, dict, ed, esc, exp, mgr, app>>

\* executeQuery whose button is re-enabled at the end of the try block only
QbSettled_NoFinally ==
    \E q \in inflight : \E r \in Settle(db, q.sql) :
        /\ q.owner = "qb"
        /\ Settled(q)
        /\ qb' = [qb EXCEPT !.disabled = ~r.ok, !.running = NoParams,
                            !.shown = IF r.ok THEN "results" ELSE "error",
                            !.rows = r.rows]
        /\ UNCHANGED <<db, isReady, cv, ld, dict, ed, esc, exp, mgr, app>>

\* executeQuery from the end of its query through the finally block
QbSettled ==
    \E q \in inflight : \E r \in Settle(db, q.sql) :
        /\ q.owner = "qb"
        /\ Settled(q)
        /\ qb' = [qb EXCEPT !.disabled = FALSE, !.running = NoParams,
                            !.shown = IF r.ok THEN "results" ELSE "error",
                            !.rows = r.rows]
        /\ UNCHANGED <<db, isReady, cv, ld, dict, ed, esc, exp, mgr, app>>

NextQb ==
    \/ handleTemplateChange \/ handleGenerateSQL \/ handleGenerateFrequencySQL
    \/ executeQuery \/ QbSettled

\* a click on Clear, which sits next to Execute Query under the preview
clickClear ==
    /\ Gestures < MaxGestures
    /\ qb.previewVisible
    /\ qb' = [clearResults(qb) EXCEPT !.gestures = @ + 1]
    /\ UNCHANGED <<db, isReady, inflight, cv, ld, dict, ed, esc, exp, mgr, app>>

TemplateFormVariation == <<"form_variation">>
DefaultLemma == <<"egy:lemma:", "=", "f">>

\* value || param.default || (param.type === 'checkbox' ? false : null)
OrDefault(value, default, type) ==
    IF ~IsFalsy(value) THEN value
    ELSE IF ~IsFalsy(default) THEN default
    ELSE IF type = "checkbox" THEN JsFalse ELSE Null

\* validateForm() over the inputs of the form variation template: the lemma
\* is required, the minimum frequency defaults to 1 and the checkbox to true
validateFormVariation(lemma_id, min_frequency, checked) ==
    [isValid |-> ~IsFalsy(Trim(lemma_id)),
     params |-> [NoParams EXCEPT
                    !.lemma_id = OrDefault(Trim(lemma_id), DefaultLemma, "lemma_search"),
                    !.min_frequency = OrDefault(Trim(min_frequency), DecimalText(1), "number"),
                    !.show_morphology = OrDefault(checked, JsTrue, "checkbox")]]

\* handleGenerateSQL(): a click on Generate SQL with the form variation form
handleGenerateFormVariationSQL ==
    \E lemma_id \in LemmaInputs, checked \in {JsTrue, JsFalse} :
        LET validation == validateFormVariation(lemma_id, <<>>, checked)
            sql == buildFormVariationSQL(validation.params)
        IN  /\ Gestures < MaxGestures
            /\ qb.currentTemplate = TemplateFormVariation
            /\ IF ~validation.isValid
               THEN qb' = [qb EXCEPT !.gestures = @ + 1]
               ELSE qb' = [qb EXCEPT !.params = validation.params, !.preview = sql,
                                     !.previewVisible = TRUE, !.onclick = sql,
                                     !.gestures = @ + 1, !.checked = checked]
            /\ UNCHANGED <<db, isReady, inflight, cv, ld, dict, ed, esc, exp, mgr, app>>

\* every gesture of the query builder
NextQueryBuilder == NextQb \/ clickClear \/ handleGenerateFormVariationSQL

(***************************************************************************)
(* SQLEditor                                                               *)
(***************************************************************************)
KwSelectTokens == "SELECT * FROM corpus.tokens"
EditorTexts ==
    {<<Space>>, <<KwSelectTokens>>, <<Space>> \o tokensSql(<<"egy:lemma:", "f">>, 1)}

EdIdle == [runs |-> <<>>, disabled |-> FALSE, shown |-> "blank", rows |-> <<>>]

EdQuery(call, sql) == [owner |-> "ed", call |-> call, stage |-> "execute", sql |-> sql]

\* executeSQL() with the textarea holding text, up to the await of the query
executeSQL(text) ==
    LET sql == Trim(text)
        n == Len(ed.runs) + 1
    IN  /\ Gestures < MaxGestures
        /\ IF IsFalsy(sql)
           THEN ed' = [ed EXCEPT !.runs = Append(@, "alert")] /\ UNCHANGED inflight
           ELSE IF isReady
           THEN /\ ed' = [ed EXCEPT !.runs = Append(@, "waiting"), !.disabled = TRUE,
                                    !.shown = "executing", !.rows = <<>>]
                /\ Issue(EdQuery(n, sql))
           ELSE /\ ed' = [ed EXCEPT !.runs = Append(@, "failed"), !.disabled = FALSE,
                                    !.shown = "error", !.rows = <<>>]
                /\ UNCHANGED inflight
        /\ UNCHANGED <<db, isReady, cv, ld, dict, qb, esc, exp, mgr, app>>

\* a click on the Execute button, which a disabled button does not deliver
EdClickExecute == \E text \in EditorTexts : ~ed.disabled /\ executeSQL(text)

\* Ctrl+Enter (or Cmd+Enter) in the textarea
EdCtrlEnter == \E text \in EditorTexts : executeSQL(text)

\* executeSQL from the end of its query through the finally block
EdSettled ==
    \E q \in inflight : \E r \in Settle(db, q.sql) :
        /\ q.owner = "ed"
        /\ Settled(q)
        /\ ed' = [ed EXCEPT !.runs[q.call] = IF r.ok THEN "done" ELSE "failed",
                            !.disabled = FALSE,
                            !.shown = IF r.ok THEN "results" ELSE "error",
                            !.rows = r.rows]
        /\ UNCHANGED <<db, isReady, cv, ld, dict, qb, esc, exp, mgr, app>>

NextEd == EdClickExecute \/ EdCtrlEnter \/ EdSettled

(***************************************************************************)
(* escapeSQL on its own                                                    *)
(***************************************************************************)
EscIdle == [input |-> <<>>, output |-> <<>>, by |-> "none"]

\* ConcordanceView.escapeSQL(input)
EscapeConcordance ==
    /\ esc.by = "none"
    /\ esc' = [esc EXCEPT !.output = escapeSQL(esc.input), !.by = "ConcordanceView"]
    /\ UNCHANGED <<db, isReady, inflight, cv, ld, dict, qb, ed, exp, mgr, app>>

\* LemmaDetail.escapeSQL(input)
EscapeLemma ==
    /\ esc.by = "none"
    /\ esc' = [esc EXCEPT !.output = escapeSQLLemma(esc.input), !.by = "LemmaDetail"]
    /\ UNCHANGED <<db, isReady, inflight, cv, ld, dict, qb, ed, exp, mgr, app>>

NextEscape == EscapeConcordance \/ EscapeLemma

\* The values a caller can hand to escapeSQL besides a string: numbers and
\* booleans, each with its JavaScript type.
MaxNumber == 20
JsValues ==
    [type : {"number"}, value : (0 - MaxNumber)..MaxNumber]
    \cup [type : {"boolean"}, value : BOOLEAN]
    \cup [type : {"string"}, value : Strs(2)]

\* !str
IsFalsyValue(v) ==
    \/ v.type = "number" /\ v.value = 0
    \/ v.type = "boolean" /\ v.value = FALSE
    \/ v.type = "string" /\ v.value = <<>>

\* String(str)
StringOf(v) ==
    IF v.type = "number"
    THEN (IF v.value < 0 THEN <<"-">> \o DecimalText(0 - v.value) ELSE DecimalText(v.value))
    ELSE IF v.type = "boolean"
    THEN (IF v.value THEN <<"t", "r", "u", "e">> ELSE <<"f", "a", "l", "s", "e">>)
    ELSE v.value

\* escapeSQL(str) for a value of any of these types: it always returns a
\* string and never throws.
escapeSQLValue(v) ==
    [rejected |-> FALSE,
     text |-> IF IsFalsyValue(v) THEN <<>> ELSE ReplaceQuotes(StringOf(v))]

\* ConcordanceView.escapeSQL(input) for a value of any type
EscapeConcordanceValue ==
    /\ esc.by = "none"
    /\ esc' = [esc EXCEPT !.output = escapeSQLValue(esc.input), !.by = "ConcordanceView"]
    /\ UNCHANGED <<db, isReady, inflight, cv, ld, dict, qb, ed, exp, mgr, app>>

\* LemmaDetail.escapeSQL(input) for a value of any type
EscapeLemmaValue ==
    /\ esc.by = "none"
    /\ esc' = [esc EXCEPT !.output = escapeSQLValue(esc.input), !.by = "LemmaDetail"]
    /\ UNCHANGED <<db, isReady, inflight, cv, ld, dict, qb, ed, exp, mgr, app>>

NextEscapeValue == EscapeConcordanceValue \/ EscapeLemmaValue

(***************************************************************************)
(* Export                                                                  *)
(***************************************************************************)
\* Characters with a meaning in delimiter-separated text.
Comma == ","
DQ == "\""
NL == "\n"
Undefined == <<"undefined">>

\* Array.prototype.join with a separator.
RECURSIVE JoinWith(_, _)
JoinWith(parts, sep) ==
    IF parts = <<>> THEN <<>>
    ELSE IF Len(parts) = 1 THEN parts[1]
    ELSE parts[1] \o sep \o JoinWith(Tail(parts), sep)

\* An exported row is an object: its keys in insertion order, each with its
\* value.  Object.keys(data[0]) gives the header names.
headers(data) == [i \in 1..Len(data[1]) |-> data[1][i].name]

\* row[header]: the value under that key, undefined when the row has none.
ValueOf(row, header) ==
    IF \E i \in 1..Len(row) : row[i].name = header
    THEN row[CHOOSE i \in 1..Len(row) : row[i].name = header].value
    ELSE Undefined

\* null and undefined are written as the empty string; String() of a string
\* is the string.
stringValue(value) == IF value = Null \/ value = Undefined THEN <<>> ELSE value

\* stringValue.replace(/"/g, '""')
RECURSIVE DoubleQuotes(_)
DoubleQuotes(s) ==
    IF s = <<>> THEN <<>>
    ELSE (IF Head(s) = DQ THEN <<DQ, DQ>> ELSE <<Head(s)>>) \o DoubleQuotes(Tail(s))

\* One cell of a data row: quoted when it holds a comma, a quote or a newline.
CsvCell(value) ==
    LET s == stringValue(value)
    IN  IF \E i \in 1..Len(s) : s[i] \in {Comma, DQ, NL}
        THEN <<DQ>> \o DoubleQuotes(s) \o <<DQ>>
        ELSE s

\* The header row is the header names joined by commas, as they are.
csvRows(data) ==
    <<JoinWith(headers(data), <<Comma>>)>> \o
    [r \in 1..Len(data) |->
        JoinWith([h \in 1..Len(headers(data)) |->
                     CsvCell(ValueOf(data[r], headers(data)[h]))], <<Comma>>)]

csvContent(data) == JoinWith(csvRows(data), <<NL>>)

ExpIdle == [data |-> <<>>, format |-> "none", content |-> <<>>, alerted |-> FALSE]

\* exportToCSV: nothing is downloaded for no data, only an alert is shown.
exportToCSV(data) ==
    IF data = <<>>
    THEN exp' = [exp EXCEPT !.data = data, !.format = "csv", !.alerted = TRUE]
    ELSE exp' = [exp EXCEPT !.data = data, !.format = "csv", !.content = csvContent(data)]

\* A string in JSON text: quotes, backslashes and newlines are escaped.
Backslash == "\\"
RECURSIVE JsonEscape(_)
JsonEscape(s) ==
    IF s = <<>> THEN <<>>
    ELSE (IF Head(s) = DQ THEN <<Backslash, DQ>>
          ELSE IF Head(s) = Backslash THEN <<Backslash, Backslash>>
          ELSE IF Head(s) = NL THEN <<Backslash, "n">>
          ELSE <<Head(s)>>) \o JsonEscape(Tail(s))

JsonString(s) == <<DQ>> \o JsonEscape(s) \o <<DQ>>

JsonValue(v) == IF v = Null THEN Null ELSE JsonString(v)

\* JSON.stringify leaves out the members whose value is undefined.
JsonMembers(row) == SelectSeq(row, LAMBDA m : m.value # Undefined)

JsonObject(row) ==
    IF JsonMembers(row) = <<>> THEN <<"{", "}">>
    ELSE <<"{", NL>> \o
         JoinWith(Map(JsonMembers(row),
                      LAMBDA m : <<Space, Space, Space, Space>> \o JsonString(m.name)
                                 \o <<":", Space>> \o JsonValue(m.value)),
                  <<Comma, NL>>) \o
         <<NL, Space, Space, "}">>

\* JSON.stringify(data, null, 2)
jsonContent(data) ==
    <<"[", NL>> \o
    JoinWith(Map(data, LAMBDA row : <<Space, Space>> \o JsonObject(row)), <<Comma, NL>>) \o
    <<NL, "]">>

exportToJSON(data) ==
    IF data = <<>>
    THEN exp' = [exp EXCEPT !.data = data, !.format = "json", !.alerted = TRUE]
    ELSE exp' = [exp EXCEPT !.data = data, !.format = "json", !.content = jsonContent(data)]

\* ResultsTable.exportData('csv') on the rows the table holds.
exportData ==
    /\ exp.format = "none"
    /\ exportToCSV(exp.data)
    /\ UNCHANGED <<db, isReady, inflight, cv, ld, dict, qb, ed, esc, mgr, app>>

\* The columns the merged record takes from rows the model keeps by their
\* keys only: every token's form, every segment's text, every document's title.
FormOf(tokenId) == <<"a">>
SegmentTextOf(segmentId) == <<"b", Space, "a", Space, "b">>
DocumentTitleOf(documentId) == IF IsFalsy(documentId) THEN <<>> ELSE <<"title ">> \o documentId

\* The field names of the record fetchConcordance returns, in its order.
RecordFields ==
    << <<"token_id">>, <<"segment_id">>, <<"form">>, <<"morphology">>,
       <<"position_in_segment">>, <<"segment_text">>, <<"sequence">>, <<"document_id">>,
       <<"document_title">>, <<"dialect">>, <<"collection_id">>, <<"collection_name">> >>

ConcordanceContextWidth == 40

\* text.indexOf(form), counted from 0; -1 when the form is not in the text.
IndexOf(text, form) ==
    LET at == {i \in 0..(Len(text) - Len(form)) : SubSeq(text, i + 1, i + Len(form)) = form}
    IN  IF at = {} THEN -1 ELSE CHOOSE i \in at : \A j \in at : i <= j

buildKWIC(context) ==
    LET text == OrEmpty(SegmentTextOf(context.segment_id))
        form == FormOf(context.token_id)
        index == IndexOf(text, form)
        left == SubSeq(text, 1, index)
        right == SubSeq(text, index + Len(form) + 1, Len(text))
        width == ConcordanceContextWidth
    IN  IF index >= 0
        THEN [left |-> IF Len(left) > width
                       THEN <<"...">> \o SubSeq(left, Len(left) - width + 1, Len(left))
                       ELSE left,
              keyword |-> form,
              right |-> IF Len(right) > width
                        THEN SubSeq(right, 1, width) \o <<"...">>
                        ELSE right]
        ELSE [left |-> <<>>, keyword |-> form,
              right |-> SubSeq(text, 1, IF Len(text) < 2 * width THEN Len(text) ELSE 2 * width)]

\* The object exportResults builds for one record.  The tokens query selects
\* no morphology column, so the record's morphology is undefined.
ExportRow(ctx) ==
    LET kwic == buildKWIC(ctx)
    IN  << [name |-> <<"left_context">>, value |-> kwic.left],
           [name |-> <<"keyword">>, value |-> kwic.keyword],
           [name |-> <<"right_context">>, value |-> kwic.right],
           [name |-> <<"full_segment">>, value |-> OrEmpty(SegmentTextOf(ctx.segment_id))],
           [name |-> <<"document">>, value |-> OrEmpty(DocumentTitleOf(ctx.document_id))],
           [name |-> <<"collection">>, value |-> ctx.collection_name],
           [name |-> <<"dialect">>, value |-> ctx.dialect],
           [name |-> <<"morphology">>, value |-> Undefined],
           [name |-> <<"token_id">>, value |-> ctx.token_id],
           [name |-> <<"segment_id">>, value |-> ctx.segment_id] >>

\* ConcordanceView.exportResults(format), from the buttons of a rendered result.
exportResults(format) ==
    /\ cv.shown = "rendered"
    /\ exp.format = "none"
    /\ IF cv.currentResults = <<>>
       THEN exp' = [exp EXCEPT !.format = format, !.alerted = TRUE]
       ELSE IF format = "csv"
       THEN exportToCSV(Map(cv.currentResults, ExportRow))
       ELSE exportToJSON(Map(cv.currentResults, ExportRow))
    /\ UNCHANGED <<db, isReady, inflight, cv, ld, dict, qb, ed, esc, mgr, app>>

\* The query results a table can hold: a column whose name and value are any
\* short text, next to a plain column.
MaxCsvLen == 2
CsvChars == {"a", Comma, DQ, NL}
CsvTexts == UNION {[1..k -> CsvChars] : k \in 0..MaxCsvLen}
CsvTables ==
    {<<>>} \cup
    {<<<<[name |-> n, value |-> v], [name |-> <<"b">>, value |-> w]>>>> :
        n \in CsvTexts \ {<<>>, <<"b">>}, v \in CsvTexts \cup {Null},
        w \in {<<"a">>, <<>>, Null}}

(***************************************************************************)
(* App: the router                                                         *)
(***************************************************************************)
MaxNavigations == 4
DictionaryView == <<"dictionary">>
QueryBuilderView == <<"query-builder">>
SQLEditorView == <<"sql-editor">>
AboutView == <<"about">>
ConcordanceRoute == <<"concordance">>
ComponentViews == {DictionaryView, QueryBuilderView, SQLEditorView}
Slash == "/"

\* the hashes of the address bar, without the #
Hashes ==
    {<<>>, AboutView,
     DictionaryView \o <<Slash>> \o Lemmas[1].lemma_id,
     QueryBuilderView \o <<Slash>> \o TemplateFormVariation,
     SQLEditorView \o <<Slash, "basic_1">>,
     ConcordanceRoute \o <<Slash>> \o Lemmas[1].lemma_id}

\* hash.split('/')
RECURSIVE SplitSlash(_, _)
SplitSlash(text, part) ==
    IF text = <<>> THEN <<part>>
    ELSE IF Head(text) = Slash THEN <<part>> \o SplitSlash(Tail(text), <<>>)
    ELSE SplitSlash(Tail(text), Append(part, Head(text)))

\* const [view, ...params] = (hash || 'dictionary').split('/'); param is
\* params[0], undefined when there is none
RouteOf(hash) ==
    LET parts == SplitSlash(IF hash = <<>> THEN DictionaryView ELSE hash, <<>>)
    IN  [view |-> parts[1],
         param |-> IF Len(parts) > 1 THEN parts[2] ELSE Undefined]

\* if (params && params[0])
HasParam(param) == param # Undefined /\ ~IsFalsy(param)

\* The App of the pages above (its database is ready), and the fields of
\* the router: where App.initialize is, dbReady, the hash of the address
\* bar, currentView, how often each component was constructed (views[name]
\* is set from the first construction on), the dynamic imports that are
\* pending, the lemmas whose selectLemma awaits its import, and the errors
\* shown.  navigations records every handleRoute call: its view and
\* parameter, what the router did with it, and whether the parameter was
\* handed to the view; viewAll records the lemmas whose 'view all' link was
\* activated.
AppIdle ==
    [pc |-> "running", dbReady |-> TRUE, hash |-> <<>>, currentView |-> Null,
     constructed |-> [v \in ComponentViews |-> 0], imports |-> {}, selecting |-> <<>>,
     errors |-> 0, navigations |-> <<>>, viewAll |-> <<>>]

\* new App() at a page load: the address bar keeps its hash
AppLoaded(hash) == [AppIdle EXCEPT !.pc = "initializing", !.dbReady = FALSE, !.hash = hash]

\* the address in the browser before the page is loaded
AppUnloaded(hash) == [AppLoaded(hash) EXCEPT !.pc = "unloaded"]

Navigation(route, status, delivered) ==
    [view |-> route.view, param |-> route.param, status |-> status, delivered |-> delivered]

\* document.getElementById(`${viewName}-view`): the page has a container for
\* each of the four views of the navigation bar; whether it has one for
\* another name is open.
Containers(hash) ==
    IF RouteOf(hash).view \in ComponentViews \cup {AboutView} THEN {TRUE} ELSE BOOLEAN

\* loadView(viewName, params) up to its await, and loadViewComponent up to
\* its dynamic import
loadView(a, route, hasContainer) ==
    IF ~hasContainer
    THEN [a EXCEPT !.errors = @ + 1,
                   !.navigations = Append(@, Navigation(route, "no container", FALSE))]
    ELSE IF route.view \in ComponentViews /\ a.constructed[route.view] > 0
    THEN [a EXCEPT !.currentView = route.view,
                   !.selecting = IF route.view = DictionaryView /\ HasParam(route.param)
                                 THEN Append(@, route.param) ELSE @,
                   !.navigations = Append(@, Navigation(route, "navigated",
                                                        HasParam(route.param)))]
    ELSE IF route.view \in ComponentViews
    THEN [a EXCEPT !.currentView = route.view,
                   !.imports = @ \cup {[view |-> route.view,
                                        navigation |-> Len(a.navigations) + 1]},
                   !.navigations = Append(@, Navigation(route, "importing", FALSE))]
    ELSE IF route.view = AboutView
    THEN [a EXCEPT !.currentView = route.view,
                   !.navigations = Append(@, Navigation(route, "about", FALSE))]
    ELSE [a EXCEPT !.currentView = route.view,
                   !.navigations = Append(@, Navigation(route, "page not found", FALSE))]

\* handleRoute without the test of dbReady
handleRoute_NoWait(a, hasContainer) == loadView(a, RouteOf(a.hash), hasContainer)

\* handleRoute()
handleRoute(a, hasContainer) ==
    IF ~a.dbReady /\ RouteOf(a.hash).view # AboutView
    THEN [a EXCEPT !.navigations = Append(@, Navigation(RouteOf(a.hash), "waiting", FALSE))]
    ELSE loadView(a, RouteOf(a.hash), hasContainer)

\* onNavigate(params) of the view handleRoute reaches, when its component
\* exists: Dictionary.selectLemma hides the dropdowns (up to its import),
\* QueryBuilder changes the template, SQLEditor.loadCookbookQuery fills the
\* textarea.
Navigates(a) ==
    /\ a.dbReady
    /\ RouteOf(a.hash).view \in ComponentViews
    /\ a.constructed[RouteOf(a.hash).view] > 0
    /\ HasParam(RouteOf(a.hash).param)

TemplateIds == {TemplateConcordance, TemplateFrequency, TemplateFormVariation}

\* QueryBuilder.handleTemplateChange(templateId) for any id
templateChanged(b, templateId) ==
    LET c == [clearResults(b) EXCEPT !.previewVisible = FALSE]
    IN  IF templateId \in TemplateIds THEN [c EXCEPT !.currentTemplate = templateId] ELSE c

onNavigate(a) ==
    /\ dict' = IF Navigates(a) /\ RouteOf(a.hash).view = DictionaryView
               THEN [dict EXCEPT !.autocomplete = [l \in Languages |-> <<>>]]
               ELSE dict
    /\ qb' = IF Navigates(a) /\ RouteOf(a.hash).view = QueryBuilderView
             THEN templateChanged(qb, RouteOf(a.hash).param)
             ELSE qb

\* handleDatabaseReady()
handleDatabaseReady(a, hasContainer) ==
    IF a.currentView = Null
    THEN handleRoute([a EXCEPT !.dbReady = TRUE], hasContainer)
    ELSE [a EXCEPT !.dbReady = TRUE]

\* handleDatabaseError(detail)
handleDatabaseError(a) == [a EXCEPT !.errors = @ + 1]

(***************************************************************************)
(* DatabaseManager.initialize                                              *)
(***************************************************************************)
MaxVersion == 2
MaxLoads == 3
DatabaseNames == {"corpus", "lexicon"}
Versions == [DatabaseNames -> 1..MaxVersion]

\* the localforage key of a database file: `corpus-${config.versions.corpus}`
CacheKey_Unversioned(name, version) == [name |-> name, version |-> 0]
CacheKey(name, version) == [name |-> name, version |-> version]

\* The manager of a page whose databases are attached (the pages above), and
\* the fields of a page load: the config.js being served and the one this
\* page loaded, the browser's cache, what the two getItem calls returned, the
\* branch initialize took and the fetch calls it made.  For the properties,
\* stored and cachedBoth record the files that were stored and the versions
\* under which one page load downloaded and stored both; previous, missing
\* and cachedBefore record, when initialize starts, the versions of the page
\* load before, the files never stored under the version now current, and
\* whether both were stored by one page load under the versions now current.
MgrIdle ==
    [pc |-> "ready", deployed |-> [n \in DatabaseNames |-> 1],
     versions |-> [n \in DatabaseNames |-> 1], cache |-> {},
     corpusCached |-> FALSE, lexiconCached |-> FALSE, path |-> "none",
     fetches |-> 0, loads |-> 0, stored |-> {}, cachedBoth |-> {},
     previous |-> <<>>, missing |-> {}, cachedBefore |-> FALSE,
     steps |-> <<>>, events |-> <<>>, calls |-> <<>>]

MgrOthers == <<db, inflight, cv, ld, dict, qb, ed, esc, exp, app>>

\* A new version of config.js is deployed: any version string, also an
\* earlier one.
Deploy ==
    /\ \E v \in Versions : v # mgr.deployed /\ mgr' = [mgr EXCEPT !.deployed = v]
    /\ UNCHANGED isReady
    /\ UNCHANGED MgrOthers

\* A page load: new App(), a new DatabaseManager with isReady false, and
\* App.initialize and DatabaseManager.initialize up to the first await.  The
\* page before, whatever it was doing, is gone with its components and its
\* queries.
initialize ==
    /\ mgr.loads < MaxLoads
    /\ isReady' = FALSE
    /\ mgr' = [mgr EXCEPT !.pc = "corpusLookup", !.versions = mgr.deployed,
                          !.corpusCached = FALSE, !.lexiconCached = FALSE,
                          !.path = "none", !.fetches = 0, !.loads = mgr.loads + 1,
                          !.previous = IF mgr.loads = 0 THEN <<>> ELSE <<mgr.versions>>,
                          !.missing = {n \in DatabaseNames :
                                          <<n, mgr.deployed[n]>> \notin mgr.stored},
                          !.cachedBefore = mgr.deployed \in mgr.cachedBoth,
                          !.steps = <<>>, !.events = <<>>, !.calls = <<>>]
    /\ app' = AppLoaded(app.hash)
    /\ inflight' = {} /\ cv' = CvIdle /\ ld' = LdIdle /\ dict' = DictIdle
    /\ qb' = QbIdle /\ ed' = EdIdle /\ exp' = ExpIdle
    /\ UNCHANGED <<db, esc>>

\* localforage.getItem(`corpus-...`) settled
CorpusLookedUp ==
    /\ mgr.pc = "corpusLookup"
    /\ mgr' = [mgr EXCEPT !.pc = "lexiconLookup",
                          !.corpusCached = CacheKey("corpus", mgr.versions["corpus"]) \in mgr.cache]
    /\ UNCHANGED isReady
    /\ UNCHANGED MgrOthers

\* localforage.getItem(`lexicon-...`) settled: load from cache when both
\* are there, download both otherwise.
LexiconLookedUp ==
    /\ mgr.pc = "lexiconLookup"
    /\ LET lexiconCached == CacheKey("lexicon", mgr.versions["lexicon"]) \in mgr.cache
       IN  mgr' = [mgr EXCEPT !.lexiconCached = lexiconCached,
                              !.path = IF mgr.corpusCached /\ lexiconCached
                                       THEN "cache" ELSE "download",
                              !.pc = IF mgr.corpusCached /\ lexiconCached
                                     THEN "loadFromCache" ELSE "fetchLexicon",
                              !.fetches = IF mgr.corpusCached /\ lexiconCached
                                          THEN 0 ELSE 1]
    /\ UNCHANGED isReady
    /\ UNCHANGED MgrOthers

\* a catch of initialize that dispatches nothing
InitializeFailed_Silent(m) == [m EXCEPT !.pc = "failed"]

\* the catch of initialize: an error event, isReady stays false
InitializeFailed(m) == [m EXCEPT !.pc = "failed", !.events = Append(@, "error")]

\* App after the manager dispatched 'error': handleDatabaseError runs, and
\* the catch of App.initialize is next
AppAfterError(a) == [handleDatabaseError(a) EXCEPT !.pc = "resuming"]

\* downloadWithProgress of a file settled: the blob, or an error for a
\* response that is not ok.  After the lexicon is stored the corpus is fetched.
Downloaded(name) ==
    /\ mgr.pc = (IF name = "lexicon" THEN "fetchLexicon" ELSE "fetchCorpus")
    /\ \E ok \in BOOLEAN :
          IF ok
          THEN /\ mgr' = [mgr EXCEPT !.pc = IF name = "lexicon" THEN "storeLexicon"
                                            ELSE "storeCorpus",
                                     !.steps = Append(@, <<"download", name>>)]
               /\ UNCHANGED app
          ELSE /\ mgr' = InitializeFailed(mgr)
               /\ app' = AppAfterError(app)
    /\ UNCHANGED <<db, isReady, inflight, cv, ld, dict, qb, ed, esc, exp>>

\* localforage.setItem of a downloaded file settled: stored, or rejected
\* (the quota of the browser), which the catch of initialize handles
Stored(name) ==
    /\ mgr.pc = (IF name = "lexicon" THEN "storeLexicon" ELSE "storeCorpus")
    /\ \E ok \in BOOLEAN :
          LET cache == mgr.cache \cup {CacheKey(name, mgr.versions[name])}
              stored == mgr.stored \cup {<<name, mgr.versions[name]>>}
              steps == Append(mgr.steps, <<"store", name>>)
          IN  IF ok
              THEN /\ mgr' = IF name = "lexicon"
                             THEN [mgr EXCEPT !.cache = cache, !.stored = stored,
                                              !.steps = steps, !.pc = "fetchCorpus",
                                              !.fetches = mgr.fetches + 1]
                             ELSE [mgr EXCEPT !.cache = cache, !.stored = stored,
                                              !.steps = steps, !.pc = "initializeDuckDB",
                                              !.cachedBoth = mgr.cachedBoth \cup {mgr.versions}]
                   /\ UNCHANGED app
              ELSE /\ mgr' = InitializeFailed(mgr)
                   /\ app' = AppAfterError(app)
    /\ UNCHANGED <<db, isReady, inflight, cv, ld, dict, qb, ed, esc, exp>>

\* loadFromCache after its timer
loadFromCache ==
    /\ mgr.pc = "loadFromCache"
    /\ mgr' = [mgr EXCEPT !.pc = "initializeDuckDB"]
    /\ UNCHANGED isReady
    /\ UNCHANGED MgrOthers

\* initializeDuckDB settled.  With both files attached isReady is set and
\* 'ready' is dispatched, which runs handleDatabaseReady before initialize
\* returns; when the engine could not be set up the catch dispatches 'error'.
initializeDuckDB ==
    /\ mgr.pc = "initializeDuckDB"
    /\ \E ok \in BOOLEAN :
          IF ok
          THEN /\ mgr' = [mgr EXCEPT !.pc = "ready",
                                     !.steps = Append(@, <<"attach", "both">>),
                                     !.events = Append(@, "ready")]
               /\ isReady' = TRUE
               /\ \E hasContainer \in Containers(app.hash) :
                     app' = [handleDatabaseReady(app, hasContainer) EXCEPT !.pc = "resuming"]
          ELSE /\ mgr' = InitializeFailed(mgr)
               /\ isReady' = FALSE
               /\ app' = AppAfterError(app)
    /\ UNCHANGED <<db, inflight, cv, ld, dict, qb, ed, esc, exp>>

\* the steps of a page load
NextInitialize ==
    \/ initialize
    \/ CorpusLookedUp
    \/ LexiconLookedUp
    \/ \E name \in DatabaseNames : Downloaded(name)
    \/ \E name \in DatabaseNames : Stored(name)
    \/ loadFromCache
    \/ initializeDuckDB

NextManager == Deploy \/ NextInitialize

\* DatabaseManager.query(sql) called by any code of the page, at any time
MaxCalls == 2
QueryTexts == {lemmaSql(Lemmas[1].lemma_id)}

\* what query does with a call when isReady has this value
QueryOutcome_NoTest(ready) == "sent"
QueryOutcome(ready) == IF ready THEN "sent" ELSE NotReady

MgrQuery(call, sql) == [owner |-> "mgr", call |-> call, stage |-> "query", sql |-> sql]

query ==
    \E sql \in QueryTexts :
        LET n == Len(mgr.calls) + 1
            outcome == QueryOutcome(isReady)
        IN  /\ n <= MaxCalls
            /\ mgr.loads > 0
            /\ mgr' = [mgr EXCEPT !.calls = Append(@, [ready |-> isReady, outcome |-> outcome])]
            /\ IF outcome = "sent" THEN Issue(MgrQuery(n, sql)) ELSE UNCHANGED inflight
            /\ UNCHANGED <<db, isReady, cv, ld, dict, qb, ed, esc, exp, app>>

\* conn.query(sql) of such a call settled: rows, or the error rethrown
QuerySettled ==
    \E q \in inflight : \E r \in Settle(db, q.sql) :
        /\ q.owner = "mgr"
        /\ Settled(q)
        /\ mgr' = [mgr EXCEPT !.calls[q.call].outcome = IF r.ok THEN "rows" ELSE r.message]
        /\ UNCHANGED <<db, isReady, cv, ld, dict, qb, ed, esc, exp, app>>

NextQuery == NextInitialize \/ query \/ QuerySettled

(***************************************************************************)
(* App: navigation                                                         *)
(***************************************************************************)
\* App.initialize after its await of dbManager.initialize(): the catch shows
\* an error when the manager failed, then handleRoute.  It runs before any
\* event or import that is pending.
AppResumed ==
    /\ app.pc = "resuming"
    /\ \E hasContainer \in Containers(app.hash) :
          app' = [handleRoute([app EXCEPT !.errors = IF mgr.pc = "failed" THEN @ + 1 ELSE @],
                              hasContainer)
                  EXCEPT !.pc = "running"]
    /\ onNavigate(app)
    /\ UNCHANGED <<db, isReady, inflight, cv, ld, ed, esc, exp, mgr>>

\* a hashchange event: the user followed a link or edited the address
hashchange ==
    \E hash \in Hashes \ {app.hash} : \E hasContainer \in Containers(hash) :
        /\ app.pc \in {"initializing", "running"}
        /\ Len(app.navigations) < MaxNavigations
        /\ app' = handleRoute([app EXCEPT !.hash = hash], hasContainer)
        /\ onNavigate([app EXCEPT !.hash = hash])
        /\ UNCHANGED <<db, isReady, inflight, cv, ld, ed, esc, exp, mgr>>

\* loadViewComponent after its dynamic import: the component is constructed
\* and renders into the container; a failed import is caught by loadView.
ImportSettled ==
    \E i \in app.imports, ok \in BOOLEAN :
        /\ app.pc = "running"
        /\ IF ok
           THEN /\ app' = [app EXCEPT !.imports = @ \ {i},
                                      !.constructed[i.view] = @ + 1,
                                      !.navigations[i.navigation].status = "constructed"]
                /\ dict' = IF i.view = DictionaryView THEN DictIdle ELSE dict
                /\ qb' = IF i.view = QueryBuilderView THEN QbIdle ELSE qb
                /\ ed' = IF i.view = SQLEditorView THEN EdIdle ELSE ed
           ELSE /\ app' = [app EXCEPT !.imports = @ \ {i}, !.errors = @ + 1,
                                      !.navigations[i.navigation].status = "failed"]
                /\ UNCHANGED <<dict, qb, ed>>
        /\ UNCHANGED <<db, isReady, inflight, cv, ld, esc, exp, mgr>>

\* Dictionary.selectLemma after its import of lemma-detail.js: a new
\* LemmaDetail, and loadLemma(lemmaId) up to its first await.  The selection
\* waits here while the queries of a lemma selected before are in flight.
LemmaDetailImported ==
    /\ app.pc = "running"
    /\ app.selecting # <<>>
    /\ ~\E q \in inflight : q.owner = "ld"
    /\ app' = [app EXCEPT !.selecting = Tail(@)]
    /\ IF isReady
       THEN /\ ld' = [LdIdle EXCEPT !.pc = "lemma", !.lemmaId = Head(app.selecting),
                                   !.stages = <<"lemma">>]
            /\ Issue(LdQuery("lemma", lemmaSql(Head(app.selecting))))
       ELSE /\ ld' = LdFailed([LdIdle EXCEPT !.lemmaId = Head(app.selecting)], NotReady)
            /\ UNCHANGED inflight
    /\ UNCHANGED <<db, isReady, cv, dict, qb, ed, esc, exp, mgr>>

\* a click on 'view all' in a lemma card, which is there when the card has
\* example contexts: viewFullConcordance sets the hash, and the hashchange
\* event runs handleRoute
viewFullConcordance ==
    \E hasContainer \in BOOLEAN :
        LET hash == ConcordanceRoute \o <<Slash>> \o ld.currentLemma
        IN  /\ app.pc = "running"
            /\ app.constructed[DictionaryView] > 0
            /\ ld.shown = "rendered" /\ ld.concordance # <<>>
            /\ hash # app.hash
            /\ Len(app.navigations) < MaxNavigations + 1
            /\ app' = [handleRoute([app EXCEPT !.hash = hash], hasContainer)
                       EXCEPT !.viewAll = Append(@, ld.currentLemma)]
            /\ UNCHANGED <<db, isReady, inflight, cv, ld, dict, qb, ed, esc, exp, mgr>>

\* the settling of the queries of a lemma card
LdSettles ==
    \/ LdLemmaSettled \/ LdFormsSettled \/ LdAttestationsSettled
    \/ LdEtymologySettled \/ LdTokensSettled \/ LdContextsSettled

NextApp ==
    \/ NextInitialize
    \/ AppResumed \/ hashchange \/ ImportSettled
    \/ LemmaDetailImported \/ LdSettles \/ viewFullConcordance

(***************************************************************************)
(* Specifications                                                          *)
(***************************************************************************)
NoQueries == /\ isReady = TRUE /\ inflight = {} /\ cv = CvIdle /\ ld = LdIdle
             /\ dict = DictIdle /\ qb = QbIdle /\ ed = EdIdle /\ mgr = MgrIdle
             /\ app = AppIdle

Quiet == NoQueries /\ esc = EscIdle /\ exp = ExpIdle

InitCv == db \in Databases /\ Quiet

SpecCv == InitCv /\ [][NextCv]_vars

InitLd == db \in Databases /\ Quiet

SpecLd == InitLd /\ [][NextLd]_vars

\* the databases in which one segment has a context row and the other has none
SampleDatabases ==
    {d \in Databases : /\ d.collections = Collections
                        /\ Len(d.segments) = 1 /\ d.segments[1].document_id = <<"doc:", "1">>}

\* the two fetch paths side by side
InitFetch == db \in SampleDatabases /\ Quiet

NextFetch == NextCv \/ NextLd

SpecFetch == InitFetch /\ [][NextFetch]_vars

\* the pages of the application that send queries
Init ==
    /\ db \in {d \in SampleDatabases : /\ Len(d.token_instances) = 1
                                        /\ d.token_instances[1].segment_id = SegOrder[1]}
    /\ Quiet

Next == NextDict \/ NextLd \/ NextQb \/ NextEd

Spec == Init /\ [][Next]_vars

\* page loads and deployments: the browser has visited no page yet
InitManager ==
    /\ db \in {d \in SampleDatabases : Len(d.token_instances) = 0}
    /\ inflight = {} /\ cv = CvIdle /\ ld = LdIdle /\ dict = DictIdle /\ qb = QbIdle
    /\ ed = EdIdle /\ esc = EscIdle /\ exp = ExpIdle /\ app = AppUnloaded(<<>>)
    /\ isReady = FALSE
    /\ mgr = [MgrIdle EXCEPT !.pc = "unloaded"]

SpecManager == InitManager /\ [][NextManager]_vars

\* one page load, and calls of DatabaseManager.query during and after it
InitQuery ==
    /\ db \in {d \in SampleDatabases : Len(d.token_instances) = 1}
    /\ inflight = {} /\ cv = CvIdle /\ ld = LdIdle /\ dict = DictIdle /\ qb = QbIdle
    /\ ed = EdIdle /\ esc = EscIdle /\ exp = ExpIdle /\ app = AppUnloaded(<<>>)
    /\ isReady = FALSE
    /\ mgr = [MgrIdle EXCEPT !.pc = "unloaded"]

SpecQuery == InitQuery /\ [][NextQuery]_vars

\* the application from the first page load on, with any hash in the address
InitApp ==
    /\ db \in {d \in SampleDatabases : /\ Len(d.token_instances) = 1
                                        /\ d.token_instances[1].segment_id = SegOrder[1]}
    /\ inflight = {} /\ cv = CvIdle /\ ld = LdIdle /\ dict = DictIdle /\ qb = QbIdle
    /\ ed = EdIdle /\ esc = EscIdle /\ exp = ExpIdle
    /\ isReady = FALSE
    /\ mgr = [MgrIdle EXCEPT !.pc = "unloaded"]
    /\ \E hash \in Hashes : app = AppUnloaded(hash)

SpecApp == InitApp /\ [][NextApp]_vars

\* the query builder, from its construction or with a template chosen
InitQueryBuilder ==
    /\ db \in {d \in SampleDatabases : /\ Len(d.token_instances) = 1
                                        /\ d.token_instances[1].segment_id = SegOrder[1]}
    /\ isReady = TRUE /\ inflight = {} /\ cv = CvIdle /\ ld = LdIdle /\ dict = DictIdle
    /\ ed = EdIdle /\ mgr = MgrIdle /\ app = AppIdle /\ esc = EscIdle /\ exp = ExpIdle
    /\ \E t \in {Null, TemplateFormVariation} : qb = [QbIdle EXCEPT !.currentTemplate = t]

SpecQueryBuilder == InitQueryBuilder /\ [][NextQueryBuilder]_vars

\* the two pages with an Execute button; a query that was sent settles
NextButtons == NextQueryBuilder \/ NextEd

\* The engine call of a query in flight completes.  Each formula is the
\* settling of a query with the engine's own error, one of the ways it can
\* settle, and is enabled exactly while a query of that page is in flight.
QbCompletes ==
    \E q \in inflight :
        /\ q.owner = "qb"
        /\ Settled(q)
        /\ qb' = [qb EXCEPT !.disabled = FALSE, !.running = NoParams,
                            !.shown = "error", !.rows = Failure(EngineFault).rows]
        /\ UNCHANGED <<db, isReady, cv, ld, dict, ed, esc, exp, mgr, app>>

EdCompletes ==
    \E q \in inflight :
        /\ q.owner = "ed"
        /\ Settled(q)
        /\ ed' = [ed EXCEPT !.runs[q.call] = "failed", !.disabled = FALSE,
                            !.shown = "error", !.rows = Failure(EngineFault).rows]
        /\ UNCHANGED <<db, isReady, cv, ld, dict, qb, esc, exp, mgr, app>>

SpecButtons ==
    InitQueryBuilder /\ [][NextButtons]_vars /\ WF_vars(QbCompletes) /\ WF_vars(EdCompletes)

\* a concordance and its export
InitExport == db \in SampleDatabases /\ Quiet

NextExport == NextCv \/ \E format \in {"csv", "json"} : exportResults(format)

SpecExport == InitExport /\ [][NextExport]_vars

\* exportToCSV alone, on every table of the bounds
InitCsv ==
    /\ db \in {d \in SampleDatabases : Len(d.token_instances) = 0}
    /\ NoQueries /\ esc = EscIdle
    /\ exp \in {[ExpIdle EXCEPT !.data = d] : d \in CsvTables}

SpecCsv == InitCsv /\ [][exportData]_vars

\* escapeSQL applied to one string
InitEscape ==
    /\ db \in {d \in SampleDatabases : Len(d.token_instances) = 0}
    /\ NoQueries /\ exp = ExpIdle
    /\ esc \in [input : Strs(MaxStrLen), output : {<<>>}, by : {"none"}]

SpecEscape == InitEscape /\ [][NextEscape]_vars

\* escapeSQL applied to one value of any type
InitEscapeValue ==
    /\ db \in {d \in SampleDatabases : Len(d.token_instances) = 0}
    /\ NoQueries /\ exp = ExpIdle
    /\ esc \in [input : JsValues, output : {<<>>}, by : {"none"}]

SpecEscapeValue == InitEscapeValue /\ [][NextEscapeValue]_vars

(***************************************************************************)
(* Properties of ConcordanceView.fetchConcordance                          *)
(***************************************************************************)
CvOver == cv.pc \in {"done", "failed"}

\* a is b with some elements left out, the others in b's order
IsSubsequence(a, b) ==
    \E f \in [1..Len(a) -> 1..Len(b)] :
        /\ \A i \in 1..Len(a) : a[i] = b[f[i]]
        /\ \A i, j \in 1..Len(a) : i < j => f[i] < f[j]

TokenKey(r) == <<r.token_id, r.segment_id>>

InResults(token) ==
    \E j \in 1..Len(cv.currentResults) : cv.currentResults[j].token_id = token.token_id

\* the rows of the tables, read without any SQL
PrimaryRows ==
    Prefix(SelectSeq(db.token_instances, LAMBDA t : t.lemma_id = cv.lemmaId), cv.limit)

DocumentsOf(token) ==
    { doc \in {db.documents[i] : i \in 1..Len(db.documents)} :
        \E i \in 1..Len(db.segments) :
            /\ db.segments[i].segment_id = token.segment_id
            /\ db.segments[i].document_id = doc.document_id }

ContextsOf(token) ==
    {cv.contexts[i] : i \in {k \in 1..Len(cv.contexts) :
                                cv.contexts[k].segment_id = token.segment_id}}

C7_OrderedSubsequence ==
    cv.pc = "done" =>
        /\ IsSubsequence(Map(cv.currentResults, TokenKey), Map(cv.tokens, TokenKey))
        /\ Len(cv.currentResults) <= Len(cv.tokens)
        /\ Len(cv.tokens) <= cv.limit

C7_Witness ==
    /\ cv.pc = "done"
    /\ Len(cv.tokens) = 2
    /\ cv.tokens[1].segment_id # cv.tokens[2].segment_id
    /\ Len(cv.currentResults) = 2
    /\ cv.contexts # <<>> /\ cv.contexts[1].segment_id = cv.tokens[2].segment_id

\* C9: with a dialect filter and no other filter the call succeeds (unless
\* the engine itself breaks down) and returns exactly the primary rows whose
\* segment belongs to a document of that dialect, in the primary order.
C9_DialectFilter ==
    (/\ CvOver
     /\ ~IsFalsy(cv.filters.dialect) /\ IsFalsy(cv.filters.collection)
     /\ cv.error # EngineFault)
    => /\ cv.pc = "done"
       /\ Map(cv.currentResults, TokenKey)
            = Map(SelectSeq(PrimaryRows,
                            LAMBDA t : \E doc \in DocumentsOf(t) :
                                           doc.dialect = cv.filters.dialect),
                  TokenKey)
       /\ \A j \in 1..Len(cv.currentResults) :
             cv.currentResults[j].dialect = cv.filters.dialect

C9_Witness ==
    /\ cv.pc = "done"
    /\ cv.filters.dialect = Sahidic /\ cv.filters.collection = Null
    /\ Len(cv.tokens) = 2 /\ Len(cv.currentResults) = 1
    /\ \E doc \in DocumentsOf(cv.tokens[1]) : doc.dialect = Bohairic
    /\ cv.currentResults[1].token_id = cv.tokens[2].token_id

\* C10: with a collection filter, a primary row is in the output exactly
\* when its segment has a document (of the requested dialect, if one is
\* requested) and that document's collection is the requested one.
C10_CollectionFilter ==
    (CvOver /\ ~IsFalsy(cv.filters.collection) /\ cv.error # EngineFault)
    => /\ cv.pc = "done"
       /\ \A i \in 1..Len(PrimaryRows) :
             InResults(PrimaryRows[i])
             <=> \E doc \in DocumentsOf(PrimaryRows[i]) :
                    /\ IsFalsy(cv.filters.dialect) \/ doc.dialect = cv.filters.dialect
                    /\ doc.collection_id = cv.filters.collection
       /\ \A j \in 1..Len(cv.currentResults) :
             \E i \in 1..Len(PrimaryRows) :
                 cv.currentResults[j].token_id = PrimaryRows[i].token_id

C10_Witness ==
    /\ cv.pc = "done"
    /\ cv.filters.collection = CollectionA
    /\ Len(cv.tokens) = 2 /\ Len(cv.contexts) = 2 /\ Len(cv.currentResults) = 1
    /\ cv.currentResults[1].collection_id = CollectionA

(***************************************************************************)
(* Properties of LemmaDetail.fetchConcordance                              *)
(***************************************************************************)
LdContextsOf(token) ==
    {k \in 1..Len(ld.contexts) : ld.contexts[k].segment_id = token.segment_id}

\* C6: when fetchConcordance returns, it returns one record per primary
\* token, the i-th built from the i-th token, whether or not the context
\* result has a record for the token's segment.
C6_OneRecordPerToken ==
    (ld.pc = "done" /\ ~ld.warned) =>
        /\ Len(ld.concordance) = Len(ld.tokens)
        /\ \A i \in 1..Len(ld.tokens) :
              /\ ld.concordance[i].token_id = ld.tokens[i].token_id
              /\ ld.concordance[i].segment_id = ld.tokens[i].segment_id

C6_Witness ==
    /\ ld.pc = "done" /\ ~ld.warned
    /\ Len(ld.tokens) = 2 /\ Len(ld.concordance) = 2
    /\ LdContextsOf(ld.tokens[1]) = {}
    /\ LdContextsOf(ld.tokens[2]) # {}

(***************************************************************************)
(* Properties of the staged fetches (SpecFetch)                            *)
(***************************************************************************)
OwnInFlight(owner) == {q \in inflight : q.owner = owner}
CvOrder == <<"primary", "context", "tertiary">>
LdOrder == <<"lemma", "forms", "attestations", "etymology", "primary", "context">>
IsPrefix(a, b) == Len(a) <= Len(b) /\ a = SubSeq(b, 1, Len(a))

\* C1: within one fetchConcordance call and within one loadLemma call the
\* sub-queries are issued in the fixed order of the stages, and at most one
\* of them is in flight at any time: the one in flight is the stage issued
\* last, every earlier stage has completed.
C1_OneStageAtATime ==
    /\ IsPrefix(cv.stages, CvOrder) /\ IsPrefix(ld.stages, LdOrder)
    /\ Cardinality(OwnInFlight("cv")) <= 1 /\ Cardinality(OwnInFlight("ld")) <= 1
    /\ \A q \in OwnInFlight("cv") : q.stage = cv.stages[Len(cv.stages)]
    /\ \A q \in OwnInFlight("ld") : q.stage = ld.stages[Len(ld.stages)]

\* both requests have their last stage in flight, all earlier stages done
C1_Witness ==
    /\ cv.stages = CvOrder /\ OwnInFlight("cv") # {}
    /\ ld.stages = LdOrder /\ OwnInFlight("ld") # {}

TokensOfLemma(lemmaId) == SelectSeq(db.token_instances, LAMBDA t : t.lemma_id = lemmaId)

\* C8: when no token row matches the lemma (the primary fetch returns zero
\* rows), the token query is the only sub-query fetchConcordance issues, in
\* ConcordanceView and in LemmaDetail, and the result is the empty sequence.
C8_EmptyPrimaryShortCircuit ==
    /\ (cv.pc # "idle" /\ TokensOfLemma(cv.lemmaId) = <<>>) =>
            /\ cv.stages = <<"primary">>
            /\ cv.pc = "done" => cv.currentResults = <<>>
    /\ (ld.pc # "idle" /\ TokensOfLemma(ld.lemmaId) = <<>>) =>
            /\ \A i \in 1..Len(ld.stages) : ld.stages[i] # "context"
            /\ ld.pc = "done" => ld.concordance = <<>>

\* both views finished on a lemma without tokens in a table that has tokens
C8_Witness ==
    /\ Len(db.token_instances) > 0
    /\ cv.pc = "done" /\ TokensOfLemma(cv.lemmaId) = <<>> /\ cv.stages = <<"primary">>
    /\ ld.pc = "done" /\ TokensOfLemma(ld.lemmaId) = <<>> /\ ~ld.warned
    /\ ld.stages = SubSeq(LdOrder, 1, 5)

(***************************************************************************)
(* Properties of escapeSQL (SpecEscape)                                    *)
(***************************************************************************)
QuotesIn(s) == Len(SelectSeq(s, LAMBDA c : c = Quote))
OthersIn(s) == SelectSeq(s, LAMBDA c : c # Quote)

\* C4: escapeSQL(s) doubles each single quote and leaves every other
\* character unchanged, and reading the literal '<escapeSQL(s)>' back with
\* two consecutive quotes standing for one yields exactly s, the closing
\* quote being the last character of the text.
C4_RoundTrip ==
    esc.by # "none" =>
        LET text == Quoted(esc.output)
            read == ReadLiteral(text, 2, <<>>)
        IN  /\ QuotesIn(esc.output) = 2 * QuotesIn(esc.input)
            /\ OthersIn(esc.output) = OthersIn(esc.input)
            /\ read.ok /\ read.value = esc.input /\ read.next = Len(text) + 1

\* escapeSQL was applied to a string with several quotes and another character
C4_Witness ==
    /\ esc.by = "ConcordanceView"
    /\ QuotesIn(esc.input) >= 2 /\ OthersIn(esc.input) # <<>>
    /\ esc.input[1] = Quote /\ esc.input[Len(esc.input)] = Quote

(***************************************************************************)
(* Properties of the pages sharing the connection (Spec)                   *)
(***************************************************************************)
\* C2: at most one query is in flight against the shared connection.
C2_OneInFlight == Cardinality(inflight) <= 1

\* the values a caller put between quotes, in the order of the text
Intended(q) ==
    CASE q.owner = "dict" ->
            LET c == dict.calls[q.call]
                pattern == <<"%">> \o normalizeForSearch(c.query) \o <<"%">>
            IN  <<c.language, pattern, pattern, pattern, pattern>>
      [] q.owner = "ld" ->
            IF q.stage = "context"
            THEN [i \in 1..Len(ld.tokens) |-> ld.tokens[i].segment_id]
            ELSE <<ld.lemmaId>>
      [] q.owner = "qb" ->
            IF qb.running.lemma_id # Null THEN <<qb.running.lemma_id>>
            ELSE lemmaIds(qb.running) \o <<qb.running.dimension_type>>
      [] OTHER -> <<>>

LiteralsOf(lx) ==
    LET lits == SelectSeq(lx, LAMBDA l : l.k = "lit")
    IN  [i \in 1..Len(lits) |-> lits[i].v]

\* C3: in every SQL text built from entered values and sent to the
\* connection, the engine reads every literal to its end and the literals
\* it reads are exactly the values the caller interpolated.
C3_ValuesStayInLiterals ==
    \A q \in inflight :
        q.owner \in {"dict", "ld", "qb"} =>
            LET lx == Lex(q.sql)
            IN  /\ \A i \in 1..Len(lx) : lx[i].k # "err"
                /\ LiteralsOf(lx) = Intended(q)

(***************************************************************************)
(* Properties of the filters of a concordance request (SpecCv)             *)
(***************************************************************************)
\* the number a text of digits writes
YearOf(text) == NumberAt([i \in 1..Len(text) |-> Kw(text[i])], 1).value

\* the document lies within the date range asked for
InDateRange(doc, filters) ==
    /\ filters.dateFrom # Null => doc.date_to >= YearOf(filters.dateFrom)
    /\ filters.dateTo # Null => doc.date_from <= YearOf(filters.dateTo)

DocumentOfRecord(r) ==
    SelectSeq(db.documents, LAMBDA doc : doc.document_id = r.document_id)

\* C11: no record of the final result fails a filter supplied with the
\* request: its document has the dialect asked for, the collection asked
\* for, and dates within the date range asked for.
C11_EveryFilterApplied ==
    cv.pc = "done" =>
        \A i \in 1..Len(cv.currentResults) :
            \A doc \in {DocumentOfRecord(cv.currentResults[i])[j] :
                             j \in 1..Len(DocumentOfRecord(cv.currentResults[i]))} :
                /\ cv.filters.dialect # Null => doc.dialect = cv.filters.dialect
                /\ cv.filters.collection # Null => doc.collection_id = cv.filters.collection
                /\ InDateRange(doc, cv.filters)

(***************************************************************************)
(* Properties of failing sub-queries                                       *)
(***************************************************************************)
StageNames == {"primary", "context", "tertiary"}

\* C12: when a sub-query of ConcordanceView.fetchConcordance fails, the call
\* ends with an error and without records: loadConcordance stores no rows
\* and renders none, whatever the earlier stages had fetched.
C12_NoPartialResult ==
    cv.pc = "failed" =>
        /\ cv.currentResults = <<>>
        /\ cv.shown = "error"
        /\ cv.error \in {ParserError, EngineFault, NotReady}

\* the collections query failed after tokens and contexts had been fetched
C12_Witness ==
    /\ cv.pc = "failed" /\ cv.stages = CvOrder
    /\ cv.tokens # <<>> /\ cv.contexts # <<>>

\* C13: a concordance sub-query that failed during LemmaDetail.loadLemma is
\* shown as a failure: the page does not present it as a lemma without
\* occurrences (rendered page, empty concordance, no error).
C13_FailureIsShown ==
    (ld.pc = "done" /\ ld.warned) => (ld.shown = "error" \/ ld.error # "")

\* C14: the error surfaced for a failed sub-query of a concordance request
\* names the stage that failed and carries the engine's message.
C14_ErrorNamesStage ==
    cv.pc = "failed" =>
        /\ \E i \in 1..Len(CvErrorShown(cv)) : CvErrorShown(cv)[i] = cv.error
        /\ \E i \in 1..Len(CvErrorShown(cv)) : CvErrorShown(cv)[i] \in StageNames

\* C15: a concordance request without a lemma id (null or empty) or with a
\* limit that is not positive is rejected before any sub-query: no SQL text
\* of that request is sent to dbManager.query.
C15_MalformedRejected ==
    (cv.pc # "idle" /\ (IsFalsy(cv.lemmaId) \/ cv.limit <= 0)) =>
        (cv.stages = <<>> /\ OwnInFlight("cv") = {})

(***************************************************************************)
(* Properties of the IN lists                                              *)
(***************************************************************************)
InOpeners == {KwContext, KwCollections, KwContextLemma, KwTemplateFrequency}

\* text has an IN ( that is closed at once
EmptyInList(text) ==
    \E i \in 1..(Len(text) - 1) : text[i] \in InOpeners /\ text[i + 1] = KwClose

\* C16: no SQL text with an empty IN () list is produced as a preview or
\* issued to the connection.
C16_NoEmptyInList ==
    /\ \A q \in inflight : ~EmptyInList(q.sql)
    /\ ~EmptyInList(qb.preview)

(***************************************************************************)
(* Properties of the dictionary autocomplete                               *)
(***************************************************************************)
\* the rows the search of a handleSearch call asks for
RowsOfCall(c) == Execute(db, searchSql(normalizeForSearch(c.query), c.language)).rows

\* C17: the dropdown and currentResults belong to the handleSearch call
\* issued last: once that call has shown its rows they are the rows on
\* display, and if its input had fewer than 2 characters the dropdown of
\* its language stays hidden, whatever older searches complete afterwards.
C17_LatestSearchWins ==
    Len(dict.calls) > 0 =>
        LET c == dict.calls[Len(dict.calls)]
        IN  /\ c.pc = "returned" => dict.autocomplete[c.language] = <<>>
            /\ c.pc = "shown" => /\ dict.currentResults = RowsOfCall(c)
                                 /\ dict.autocomplete[c.language] = RowsOfCall(c)

(***************************************************************************)
(* C18: delimiter-separated export                                         *)
(***************************************************************************)
\* Reading delimiter-separated text by the standard rules: records end at a
\* line break, fields at a comma, a field that opens with a double quote
\* runs to its closing quote and holds a quote for every doubled quote.
RECURSIVE ParseCsv(_, _, _, _, _, _)
ParseCsv(text, i, mode, field, record, records) ==
    IF i > Len(text) THEN Append(records, Append(record, field))
    ELSE IF mode = "quoted"
    THEN IF text[i] # DQ
         THEN ParseCsv(text, i + 1, "quoted", Append(field, text[i]), record, records)
         ELSE IF i < Len(text) /\ text[i + 1] = DQ
         THEN ParseCsv(text, i + 2, "quoted", Append(field, DQ), record, records)
         ELSE ParseCsv(text, i + 1, "plain", field, record, records)
    ELSE IF text[i] = Comma
    THEN ParseCsv(text, i + 1, "start", <<>>, Append(record, field), records)
    ELSE IF text[i] = NL
    THEN ParseCsv(text, i + 1, "start", <<>>, <<>>, Append(records, Append(record, field)))
    ELSE IF text[i] = DQ /\ mode = "start"
    THEN ParseCsv(text, i + 1, "quoted", field, record, records)
    ELSE ParseCsv(text, i + 1, "plain", Append(field, text[i]), record, records)

\* The fields an export of the data is meant to carry: the header names, then
\* every row's values under those names.
FieldsOf(data) ==
    <<headers(data)>> \o
    [r \in 1..Len(data) |->
        [h \in 1..Len(headers(data)) |-> stringValue(ValueOf(data[r], headers(data)[h]))]]

\* C18: splitting the text exportToCSV writes by the standard rules gives
\* back the header names and the cell values that were exported.
C18_FieldsRecovered ==
    (exp.format = "csv" /\ ~exp.alerted) =>
        ParseCsv(exp.content, 1, "start", <<>>, <<>>, <<>>) = FieldsOf(exp.data)

(***************************************************************************)
(* C19: the exports of a concordance                                       *)
(***************************************************************************)
\* The field names one exported record has in the file.
ExportedNames(row) ==
    IF exp.format = "csv" THEN headers(exp.data)
    ELSE Map(JsonMembers(row), LAMBDA m : m.name)

\* C19: an export of a concordance has one record per record of the result,
\* in the result's order, and every exported record has exactly the field
\* names of the record fetchConcordance returns, in the same order.
C19_ExportKeepsFields ==
    (exp.format \in {"csv", "json"} /\ ~exp.alerted) =>
        /\ Len(exp.data) = Len(cv.currentResults)
        /\ \A r \in 1..Len(exp.data) :
              /\ ValueOf(exp.data[r], <<"token_id">>) = cv.currentResults[r].token_id
              /\ ExportedNames(exp.data[r]) = RecordFields

(***************************************************************************)
(* C20: downloads and the versioned cache                                  *)
(***************************************************************************)
Decided == mgr.path # "none"

\* initialize fetches exactly when a file was missing under its key
DownloadsIffAbsent ==
    /\ Decided => ((mgr.path = "download") <=> (mgr.missing # {}))
    /\ (mgr.fetches > 0) <=> (mgr.path = "download")

\* once a page load downloaded and stored both files, a page load under the
\* same versions loads from the cache without a fetch
CachedLoadsWithoutFetch ==
    (Decided /\ mgr.cachedBefore) => (mgr.path = "cache" /\ mgr.fetches = 0)

\* the files whose version is not the one of the page load before
Changed ==
    IF mgr.previous = <<>> THEN {}
    ELSE {n \in DatabaseNames : mgr.previous[1][n] # mgr.versions[n]}

VersionChanged == Changed # {}

\* C20 as stated: initialize downloads exactly when a file is missing from
\* the cache under its version key, loads from the cache without a fetch
\* after a page load that cached both, and downloads again at the first page
\* load after any change of a version.
C20_DownloadIffAbsent ==
    /\ DownloadsIffAbsent
    /\ CachedLoadsWithoutFetch
    /\ (Decided /\ VersionChanged) => mgr.path = "download"

\* C20 amended: as above, and initialize downloads again at the first page
\* load after a version changed to one under which the file is not cached.
C20_DownloadIffAbsent_Amended ==
    /\ DownloadsIffAbsent
    /\ CachedLoadsWithoutFetch
    /\ (Decided /\ Changed \cap mgr.missing # {}) => mgr.path = "download"

\* a page load that found both files, stored by an earlier page load under
\* the same versions, after a page load under other versions had downloaded
C20_Witness ==
    /\ mgr.pc = "ready" /\ isReady
    /\ mgr.loads = MaxLoads
    /\ mgr.path = "cache" /\ mgr.fetches = 0
    /\ VersionChanged
    /\ Cardinality(mgr.cachedBoth) = 2

(***************************************************************************)
(* C30: escapeSQL of values that are not strings                           *)
(***************************************************************************)
\* C30: escapeSQL turns every integer, 0 included, into its decimal digits
\* before escaping, and rejects a boolean.
C30_CanonicalText ==
    (esc.by # "none") =>
        /\ esc.input.type = "number" =>
              (~esc.output.rejected /\ esc.output.text = StringOf(esc.input))
        /\ esc.input.type = "boolean" => esc.output.rejected

(***************************************************************************)
(* C22, C26: the query builder's preview and its checkbox                  *)
(***************************************************************************)
\* C22: the SQL a click on Execute Query sends is the text the preview shows
\* at that moment.
C22_ExecutesThePreview ==
    [][\A q \in inflight' \ inflight : q.owner = "qb" => q.sql = qb.preview]_vars

\* C26: the show_morphology value handed to buildSQL is the state of the
\* checkbox, and with the box unchecked the generated SQL has no morphology
\* column.
C26_CheckboxState ==
    (qb.currentTemplate = TemplateFormVariation /\ qb.checked # Null /\ qb.onclick # Null) =>
        /\ qb.params.show_morphology = qb.checked
        /\ qb.checked = JsFalse => qb.onclick[1] = KwFormsPlain

(***************************************************************************)
(* C29: the Execute buttons                                                *)
(***************************************************************************)
\* C29: an Execute button that a running query disabled is enabled again
\* once the query has settled, with rows or with an error.
C29_ButtonReenabled ==
    /\ qb.disabled ~> ~qb.disabled
    /\ ed.disabled ~> ~ed.disabled

\* both pages had a query fail, and both buttons are enabled again
C29_Witness ==
    /\ inflight = {}
    /\ qb.shown = "error" /\ ~qb.disabled
    /\ \E i \in 1..Len(ed.runs) : ed.runs[i] = "failed"
    /\ ~ed.disabled

(***************************************************************************)
(* C21: on a first load the interface becomes available ('ready'           *)
(* dispatched, isReady and App.dbReady true) only after both databases     *)
(* were downloaded, stored in the cache and attached, in that order; a     *)
(* page load of which a step failed dispatches 'error' and never 'ready'.  *)
(***************************************************************************)
FirstLoadSteps ==
    << <<"download", "lexicon">>, <<"store", "lexicon">>,
       <<"download", "corpus">>, <<"store", "corpus">>, <<"attach", "both">> >>

Available == isReady \/ app.dbReady \/ mgr.events = <<"ready">>

C21_ReadyAfterAttach ==
    /\ Available => isReady /\ app.dbReady /\ mgr.events = <<"ready">>
    /\ Available /\ mgr.path = "download" => mgr.steps = FirstLoadSteps
    /\ Available => mgr.steps # <<>> /\ mgr.steps[Len(mgr.steps)] = <<"attach", "both">>
    /\ mgr.pc = "failed" => mgr.events = <<"error">> /\ ~Available
    /\ mgr.events \in {<<>>, <<"ready">>, <<"error">>}

C21_Witness ==
    /\ mgr.loads = 1 /\ mgr.path = "download" /\ mgr.steps = FirstLoadSteps
    /\ isReady /\ app.dbReady /\ mgr.events = <<"ready">>

(***************************************************************************)
(* C25: DatabaseManager.query sends SQL to the connection only when        *)
(* isReady is true; before initialize has completed, and after it has      *)
(* failed, every call fails with 'Database not ready' and nothing is sent. *)
(***************************************************************************)
C25_QueryOnlyWhenReady ==
    /\ \A i \in 1..Len(mgr.calls) :
          mgr.calls[i].ready <=> mgr.calls[i].outcome # NotReady
    /\ \A q \in inflight : q.owner = "mgr" => mgr.calls[q.call].ready /\ isReady
    /\ ~isReady => ~\E q \in inflight : q.owner = "mgr"

C25_Witness ==
    /\ Len(mgr.calls) = 2
    /\ ~mgr.calls[1].ready /\ mgr.calls[1].outcome = NotReady
    /\ mgr.calls[2].ready /\ mgr.calls[2].outcome = "rows"

(***************************************************************************)
(* C23: each view component (Dictionary, QueryBuilder, SQLEditor) is       *)
(* constructed at most once in the lifetime of the application, for every  *)
(* interleaving of the 'ready' handler, the handleRoute call at the end of *)
(* App.initialize, hashchange events and the completion of the imports.    *)
(***************************************************************************)
C23_ConstructedOnce == \A v \in ComponentViews : app.constructed[v] <= 1

(***************************************************************************)
(* C24: no database-backed view is loaded while App.dbReady is false:      *)
(* before 'ready', and forever after a failed initialization, handleRoute  *)
(* loads only 'about' and leaves currentView unchanged for other routes.   *)
(***************************************************************************)
C24_NoViewBeforeReady ==
    ~app.dbReady =>
        /\ app.currentView \in {Null, AboutView}
        /\ app.imports = {}
        /\ \A v \in ComponentViews : app.constructed[v] = 0
        /\ \A i \in 1..Len(app.navigations) :
              /\ app.navigations[i].status \in {"waiting", "about"}
              /\ app.navigations[i].status = "about" <=> app.navigations[i].view = AboutView

C24_Witness ==
    /\ ~app.dbReady /\ mgr.pc = "failed" /\ app.pc = "running"
    /\ app.currentView = AboutView
    /\ \E i \in 1..Len(app.navigations) :
          app.navigations[i].status = "waiting" /\ app.navigations[i].view = DictionaryView
    /\ RouteOf(app.hash).view \in ComponentViews

(***************************************************************************)
(* C27: a navigation to a hash <view>/<param> delivers param to the view   *)
(* on every such navigation, including the first one, which constructs the *)
(* component.                                                              *)
(***************************************************************************)
C27_ParamDelivered ==
    \A i \in 1..Len(app.navigations) :
        LET n == app.navigations[i]
        IN  /\ n.view \in ComponentViews
            /\ HasParam(n.param)
            /\ n.status \in {"constructed", "navigated"}
            => n.delivered

(***************************************************************************)
(* C28: activating 'view all' in a lemma card, once the database is ready, *)
(* makes the router load a concordance view for that lemma id (and         *)
(* ConcordanceView.loadConcordance run for it).                            *)
(***************************************************************************)
C28_ViewAllLoadsConcordance ==
    app.viewAll # <<>> =>
        \E i \in 1..Len(app.navigations) :
            /\ app.navigations[i].view = ConcordanceRoute
            /\ app.navigations[i].param = app.viewAll[1]
            /\ \/ app.navigations[i].status \in {"importing", "constructed", "navigated"}
               \/ cv.lemmaId = app.viewAll[1]
====
